---- MODULE Spec2Model ----
(***************************************************************************)
(* Model of aliceVision::sfm::BundleAdjustmentPanoramaCeres                *)
(* (src/src/aliceVision/sfm/BundleAdjustmentPanoramaCeres.cpp).            *)
(*                                                                         *)
(* The state is the scene (sfmData), the bundle adjuster's block maps and  *)
(* statistics, the ceres::Problem built by createProblem, and the position *)
(* of the running adjust() call.  Rotations are 3x3 row-major matrices of  *)
(* integers (the identity and the quarter turns about z), intrinsic        *)
(* parameter vectors are sequences of integers.                            *)
(***************************************************************************)
EXTENDS Integers, Sequences, FiniteSets, Bags, TLC

(***************************************************************************)
(* Bounds of the model.                                                    *)
(***************************************************************************)
NViews == 4
NSubPoses == 2
MaxConstraints == 2
MaxPriors == 1
MaxSolverSteps == 2
MaxCalls == 2
MaxExports == 3

ViewIds == 1..NViews
PoseIds == 1..NViews
SubPoseIds == 0..(NSubPoses - 1)
RigIds == {1}
IntrinsicIds == {1, 2}

(***************************************************************************)
(* Enumerations.                                                           *)
(***************************************************************************)
REFINED == "REFINED"
Constant == "CONSTANT"
IGNORED == "IGNORED"
EParameterState == {REFINED, Constant, IGNORED}

POSE == "POSE"
INTRINSIC == "INTRINSIC"
EParameter == {POSE, INTRINSIC}

UNINITIALIZED == "UNINITIALIZED"
REFINABLE == "REFINABLE"
ERigSubPoseStatus == {UNINITIALIZED, Constant, REFINABLE}

REFINE_ROTATION == "REFINE_ROTATION"
REFINE_TRANSLATION == "REFINE_TRANSLATION"
REFINE_STRUCTURE == "REFINE_STRUCTURE"
REFINE_INTRINSICS_FOCAL == "REFINE_INTRINSICS_FOCAL"
REFINE_INTRINSICS_OPTICALOFFSET_ALWAYS == "REFINE_INTRINSICS_OPTICALOFFSET_ALWAYS"
REFINE_INTRINSICS_OPTICALOFFSET_IF_ENOUGH_DATA == "REFINE_INTRINSICS_OPTICALOFFSET_IF_ENOUGH_DATA"
REFINE_INTRINSICS_DISTORTION == "REFINE_INTRINSICS_DISTORTION"

PINHOLE == "Pinhole"
EQUIDISTANT == "EquiDistant"
OTHERCAMERA == "IntrinsicsScaleOffset"
CameraTypes == {PINHOLE, EQUIDISTANT, OTHERCAMERA}

UndefinedIndexT == -1

(***************************************************************************)
(* Rotations: 3x3 row-major matrices, 9 entries.                           *)
(***************************************************************************)
Identity3 == <<1, 0, 0, 0, 1, 0, 0, 0, 1>>
RotZ90 == <<0, -1, 0, 1, 0, 0, 0, 0, 1>>

MatMul(A, B) ==
  [k \in 1..9 |->
     LET r == (k - 1) \div 3
         c == (k - 1) % 3
     IN  A[3 * r + 1] * B[c + 1] + A[3 * r + 2] * B[3 + c + 1] + A[3 * r + 3] * B[6 + c + 1]]

Transpose(A) ==
  [k \in 1..9 |->
     LET r == (k - 1) \div 3
         c == (k - 1) % 3
     IN  A[3 * c + r + 1]]

Max(a, b) == IF a >= b THEN a ELSE b

(***************************************************************************)
(* References to parameter blocks (the double* handed to ceres).  A block  *)
(* is identified by the map entry it lives in; nullptr is NullBlock.       *)
(***************************************************************************)
PoseBlock(poseId) == [kind |-> "pose", rig |-> UndefinedIndexT, id |-> poseId]
RigBlock(rigId, subPoseId) == [kind |-> "rig", rig |-> rigId, id |-> subPoseId]
IntrinsicBlock(intrinsicId) == [kind |-> "intrinsic", rig |-> UndefinedIndexT, id |-> intrinsicId]
NullBlock == [kind |-> "null", rig |-> UndefinedIndexT, id |-> UndefinedIndexT]

VARIABLES
  poses,            \* sfmData.getPoses(): poseId -> [rotation, translation, locked]
  rigs,             \* sfmData.getRigs(): rigId -> subPoseId -> [status, rotation]
  views,            \* sfmData.getViews()
  intrinsics,       \* sfmData.getIntrinsics(): the shared camera objects
  constraints2D,    \* sfmData.getConstraints2D()
  rotationPriors,   \* sfmData.getRotationPriors()
  poseState,        \* getPoseState(poseId)
  intrinsicState,   \* getIntrinsicState(intrinsicId)
  refineOptions,    \* the ERefineOptions argument of adjust
  adjustCalls,      \* number of adjust calls made on the instance
  posesBlocks,      \* _posesBlocks
  rigBlocks,        \* _rigBlocks
  intrinsicsBlocks, \* _intrinsicsBlocks
  statistics,       \* _statistics
  problem,          \* the ceres::Problem of the running adjust call
  pc,               \* position of the adjust call
  solverSteps,      \* number of solver iterations taken
  result,           \* return value of adjust
  sceneBefore,      \* the scene as it was when adjust was called
  evalCost,         \* a cost function under evaluation
  evalParameters,   \* the parameters array handed to its Evaluate
  evalRequest,      \* the jacobians array handed to its Evaluate
  evalResult,       \* what Evaluate wrote and read
  parameterization, \* an IntrinsicsParameterization object
  plusX,            \* the x handed to its Plus
  plusDelta,        \* the delta handed to its Plus
  plusResult,       \* what Plus wrote and read
  plusJacobian,     \* the matrix ComputeJacobian wrote
  file,             \* the statistics file: whether it exists, and its lines
  exportReturns     \* the return values of the exportToFile calls, in order

sceneVars == <<poses, rigs, views, intrinsics, constraints2D, rotationPriors>>
inputVars == <<poseState, intrinsicState, refineOptions, adjustCalls>>
baVars == <<posesBlocks, rigBlocks, intrinsicsBlocks, statistics>>
costVars == <<evalCost, evalParameters, evalRequest, evalResult>>
plusVars == <<parameterization, plusX, plusDelta, plusResult, plusJacobian>>
fileVars == <<file, exportReturns>>
vars == <<poses, rigs, views, intrinsics, constraints2D, rotationPriors,
          poseState, intrinsicState, refineOptions, adjustCalls,
          posesBlocks, rigBlocks, intrinsicsBlocks, statistics,
          problem, pc, solverSteps, result, sceneBefore,
          evalCost, evalParameters, evalRequest, evalResult,
          parameterization, plusX, plusDelta, plusResult, plusJacobian,
          file, exportReturns>>

(***************************************************************************)
(* std::map / HashMap helpers: a map is a function on its set of keys.     *)
(***************************************************************************)
EmptyMap == [x \in {} |-> 0]

MapPut(m, k, v) == [x \in (DOMAIN m) \cup {k} |-> IF x = k THEN v ELSE m[x]]

MapMerge(m, n) == [x \in (DOMAIN m) \cup (DOMAIN n) |-> IF x \in DOMAIN n THEN n[x] ELSE m[x]]

(***************************************************************************)
(* Camera objects.  getParams() is scale, offset, distortion in order.     *)
(* Image sizes are multiples of 20 and focalY a multiple of focalX, so     *)
(* that 0.2 * max(w, h), 0.05 * w and focalY / focalX are exact.           *)
(***************************************************************************)
DistortionSizeOf(type) == IF type = EQUIDISTANT THEN 3 ELSE IF type = PINHOLE THEN 1 ELSE 0

Camera(type) ==
  [type |-> type, locked |-> FALSE,
   scale |-> <<2, 4>>, offset |-> <<0, 0>>,
   distortion |-> [k \in 1..DistortionSizeOf(type) |-> 0],
   initialScale |-> <<2, 4>>, ratioLocked |-> TRUE, w |-> 20, h |-> 40]

getParams(cam) == cam.scale \o cam.offset \o cam.distortion

(***************************************************************************)
(* View accessors.                                                         *)
(***************************************************************************)
isPartOfRig(view) == view.rigId # UndefinedIndexT /\ view.subPoseId # UndefinedIndexT

isPoseIndependant(view) == (~isPartOfRig(view)) \/ view.isPoseIndependant

isPoseAndIntrinsicDefined(view) ==
  view.poseId \in DOMAIN poses /\ view.intrinsicId \in DOMAIN intrinsics

(***************************************************************************)
(* Statistics.                                                             *)
(***************************************************************************)
NewStatistics ==
  [parametersStates |-> [e \in EParameter |-> [st \in EParameterState |-> 0]],
   nbResidualBlocks |-> 0]

addStates(stats, parameter, state, n) ==
  [stats EXCEPT !.parametersStates[parameter][state] = @ + n]

EmptyProblem == [parameterBlocks |-> EmptyMap, residualBlocks |-> <<>>]

(***************************************************************************)
(* The scenes adjust is called on.                                         *)
(***************************************************************************)
NoRig == UndefinedIndexT

PoseConfigs == {<<0, REFINED>>} \cup (PoseIds \X {"locked", Constant, IGNORED})

SubPoseConfigs == {<<-1, REFINABLE>>} \cup (SubPoseIds \X {UNINITIALIZED, Constant})

RefineAll ==
  {REFINE_ROTATION, REFINE_INTRINSICS_FOCAL, REFINE_INTRINSICS_DISTORTION,
   REFINE_INTRINSICS_OPTICALOFFSET_ALWAYS}

\* camera model of the intrinsic and refine options of the call
CameraRefineChoices ==
  (CameraTypes \X {RefineAll}) \cup ({PINHOLE} \X {{}, {REFINE_ROTATION}})

\* rig linkage of the first two views: sub-pose of view 1, sub-pose of view 2
RigLayouts ==
  {<<NoRig, NoRig>>, <<0, NoRig>>, <<NoRig, 0>>, <<0, 0>>, <<0, NSubPoses - 1>>}

\* the intrinsic of the last view and the state of intrinsic 1: the last view
\* shares intrinsic 1 (intrinsic 2 is then referenced by no view), has
\* intrinsic 2 of its own, or has intrinsic 2 and no pose in the scene.
\* In the mixed scenes views 1 and 2 have intrinsic 1, the other views have
\* intrinsic 2, the 2D constraints join views of one intrinsic, and the
\* first or the last of the two intrinsics is of another camera model.  In
\* the scene "second" view 2 alone has intrinsic 2, of the same camera model,
\* so that the 2D constraints join views of different intrinsics.
IntrinsicConfigs ==
  {<<"shared", REFINED>>, <<"shared", Constant>>, <<"shared", IGNORED>>,
   <<"own", REFINED>>, <<"unreconstructed", REFINED>>,
   <<"mixedFirst", REFINED>>, <<"mixedLast", REFINED>>, <<"second", REFINED>>}

IsMixed(icfg) == icfg[1] \in {"mixedFirst", "mixedLast"}

SceneSnapshot == [poses |-> poses, rigs |-> rigs, intrinsics |-> intrinsics]

NoEvaluation == [cost |-> "none"]

AbsentFile == [exists |-> FALSE, lines |-> <<>>]

EmptyFile == [exists |-> TRUE, lines |-> <<>>]

\* no IntrinsicsParameterization object is exercised on its own, and no
\* statistics have been exported
NoPlus ==
  /\ parameterization = NoEvaluation
  /\ plusX = <<>>
  /\ plusDelta = <<>>
  /\ plusResult = NoEvaluation
  /\ plusJacobian = NoEvaluation
  /\ file = AbsentFile
  /\ exportReturns = <<>>

\* the scene with the given pose, sub-pose, rig, camera and option choices
SceneInit(pcfg, scfg, layout, indep1, icfg, type, options, nC, nP) ==
  /\ poses = [p \in (IF icfg[1] = "unreconstructed" THEN PoseIds \ {NViews} ELSE PoseIds) |->
                [rotation |-> IF p % 2 = 1 THEN RotZ90 ELSE Identity3,
                 translation |-> <<1, 0, 0>>,
                 locked |-> (pcfg = <<p, "locked">>)]]
  /\ poseState = [p \in PoseIds |->
                    IF pcfg = <<p, Constant>> THEN Constant
                    ELSE IF pcfg = <<p, IGNORED>> THEN IGNORED ELSE REFINED]
  /\ rigs = [r \in RigIds |-> [s \in SubPoseIds |->
               [status |-> IF scfg[1] = s THEN scfg[2] ELSE REFINABLE,
                rotation |-> RotZ90]]]
  /\ LET viewRig(v) == IF v <= 2 THEN layout[v] ELSE NoRig
     IN views = [v \in ViewIds |->
                   [poseId |-> v,
                    intrinsicId |-> IF IsMixed(icfg) THEN (IF v <= 2 THEN 1 ELSE 2)
                                    ELSE IF icfg[1] = "second" THEN (IF v = 2 THEN 2 ELSE 1)
                                    ELSE IF v = NViews /\ icfg[1] # "shared" THEN 2 ELSE 1,
                    rigId |-> IF viewRig(v) = NoRig THEN UndefinedIndexT ELSE 1,
                    subPoseId |-> viewRig(v),
                    isPoseIndependant |-> (viewRig(v) = NoRig \/ (v = 1 /\ indep1))]]
  /\ intrinsics = [i \in IntrinsicIds |->
                     IF (i = 1 /\ icfg[1] = "mixedFirst") \/ (i = 2 /\ icfg[1] = "mixedLast")
                       THEN Camera(OTHERCAMERA) ELSE Camera(type)]
  /\ refineOptions = options
  /\ adjustCalls = 1
  /\ constraints2D = [k \in 1..nC |->
                        [ViewFirst |-> IF IsMixed(icfg) THEN ((2 * k - 2) % NViews) + 1
                                       ELSE ((k - 1) % NViews) + 1,
                         ViewSecond |-> IF IsMixed(icfg) THEN ((2 * k - 1) % NViews) + 1
                                        ELSE (k % NViews) + 1,
                         ObservationFirst |-> 2 * k - 1,
                         ObservationSecond |-> 2 * k]]
  /\ rotationPriors = [k \in 1..nP |->
                         [ViewFirst |-> ((k - 1) % NViews) + 1,
                          ViewSecond |-> (k % NViews) + 1,
                          second_R_first |-> RotZ90]]
  /\ intrinsicState = [i \in IntrinsicIds |-> IF i = 1 THEN icfg[2] ELSE REFINED]
  /\ posesBlocks = EmptyMap
  /\ rigBlocks = EmptyMap
  /\ intrinsicsBlocks = EmptyMap
  /\ statistics = NewStatistics
  /\ problem = EmptyProblem
  /\ pc = "idle"
  /\ solverSteps = 0
  /\ result = "none"
  /\ sceneBefore = SceneSnapshot

Init ==
  /\ \/ \E pcfg \in PoseConfigs, scfg \in SubPoseConfigs, layout \in RigLayouts,
           indep1 \in BOOLEAN, choice \in CameraRefineChoices,
           nC \in 0..MaxConstraints, nP \in 0..MaxPriors :
          SceneInit(pcfg, scfg, layout, indep1, <<"shared", REFINED>>,
                    choice[1], choice[2], nC, nP)
     \/ \E icfg \in IntrinsicConfigs, layout \in RigLayouts, choice \in CameraRefineChoices,
           nC \in 0..MaxConstraints, nP \in 0..MaxPriors :
          SceneInit(<<0, REFINED>>, <<-1, REFINABLE>>, layout, FALSE, icfg,
                    choice[1], choice[2], nC, nP)
  /\ evalCost = NoEvaluation
  /\ evalParameters = <<>>
  /\ evalRequest = [jacobians |-> "nullptr", nonNull |-> {}]
  /\ evalResult = NoEvaluation
  /\ NoPlus

(***************************************************************************)
(* adjust(sfmData, refineOptions): entry, then createProblem's first step, *)
(* resetProblem.                                                           *)
(***************************************************************************)
createProblemResets_Never == FALSE

\* createProblem calls resetProblem before anything else
createProblemResets == TRUE

resetProblem ==
  /\ pc = "idle"
  /\ pc' = "addExtrinsics"
  /\ sceneBefore' = SceneSnapshot
  /\ statistics' = IF createProblemResets THEN NewStatistics ELSE statistics
  /\ posesBlocks' = IF createProblemResets THEN EmptyMap ELSE posesBlocks
  /\ rigBlocks' = IF createProblemResets THEN EmptyMap ELSE rigBlocks
  /\ intrinsicsBlocks' = IF createProblemResets THEN EmptyMap ELSE intrinsicsBlocks
  /\ problem' = EmptyProblem
  /\ solverSteps' = 0
  /\ result' = "none"
  /\ UNCHANGED <<sceneVars, inputVars, costVars, plusVars, fileVars>>

(***************************************************************************)
(* addExtrinsicsToProblem.                                                 *)
(***************************************************************************)
RotationBlockEntry(isConstant) ==
  [size |-> 9, constant |-> isConstant, parameterization |-> "SO3",
   lower |-> EmptyMap, upper |-> EmptyMap]

\* a pose the loop over the poses skips
poseIsSkipped_Never(state) == FALSE

poseIsSkipped(state) == state = IGNORED

\* a sub-pose the loop over the rigs skips
subPoseIsSkipped_Never(status) == FALSE

subPoseIsSkipped(status) == status = UNINITIALIZED

addPoseIsConstant_IgnoresLock(isLocked, isConstant, refineRotation) ==
  isConstant \/ ~refineRotation

\* the condition under which addPose sets the block constant
addPoseIsConstant(isLocked, isConstant, refineRotation) ==
  isLocked \/ isConstant \/ ~refineRotation

addExtrinsicsToProblem ==
  /\ pc = "addExtrinsics"
  /\ LET refineRotation == REFINE_ROTATION \in refineOptions
         ignoredPoses == {p \in DOMAIN poses : poseIsSkipped(poseState[p])}
         addedPoses == (DOMAIN poses) \ ignoredPoses
         poseConstant(p) == addPoseIsConstant(poses[p].locked, poseState[p] = Constant, refineRotation)
         addedSubPoses == {rs \in RigIds \X SubPoseIds :
                              rs[1] \in DOMAIN rigs /\ rs[2] \in DOMAIN rigs[rs[1]]
                              /\ ~subPoseIsSkipped(rigs[rs[1]][rs[2]].status)}
         subPoseConstant(rs) == addPoseIsConstant(FALSE, rigs[rs[1]][rs[2]].status = Constant, refineRotation)
         addedRigs == {rs[1] : rs \in addedSubPoses}
         nbConstant == Cardinality({p \in addedPoses : poseConstant(p)})
                       + Cardinality({rs \in addedSubPoses : subPoseConstant(rs)})
         nbRefined == Cardinality({p \in addedPoses : ~poseConstant(p)})
                      + Cardinality({rs \in addedSubPoses : ~subPoseConstant(rs)})
         newBlocks == [b \in {PoseBlock(p) : p \in addedPoses}
                               \cup {RigBlock(rs[1], rs[2]) : rs \in addedSubPoses} |->
                         IF b.kind = "pose" THEN RotationBlockEntry(poseConstant(b.id))
                         ELSE RotationBlockEntry(subPoseConstant(<<b.rig, b.id>>))]
     IN
       /\ posesBlocks' = MapMerge(posesBlocks, [p \in addedPoses |-> poses[p].rotation])
       /\ rigBlocks' = MapMerge(rigBlocks,
            [r \in addedRigs |->
               MapMerge(IF r \in DOMAIN rigBlocks THEN rigBlocks[r] ELSE EmptyMap,
                        [s \in {rs[2] : rs \in {x \in addedSubPoses : x[1] = r}} |->
                           rigs[r][s].rotation])])
       /\ statistics' = addStates(addStates(addStates(statistics,
                            POSE, IGNORED, Cardinality(ignoredPoses)),
                            POSE, Constant, nbConstant),
                            POSE, REFINED, nbRefined)
       /\ problem' = [problem EXCEPT !.parameterBlocks = MapMerge(@, newBlocks)]
  /\ pc' = "addIntrinsics"
  /\ UNCHANGED <<sceneVars, inputVars, costVars, plusVars, fileVars, intrinsicsBlocks, solverSteps, result, sceneBefore>>

(***************************************************************************)
(* IntrinsicsParameterization.                                             *)
(***************************************************************************)
IntrinsicsParameterization_FocalCountsTwo(parametersSize, focalRatio, lockFocal, lockFocalRatio, lockCenter, lockDistortion) ==
  [globalSize |-> parametersSize,
   focalRatio |-> focalRatio,
   lockFocal |-> lockFocal,
   lockFocalRatio |-> lockFocalRatio,
   lockCenter |-> lockCenter,
   lockDistortion |-> lockDistortion,
   distortionSize |-> parametersSize - 4,
   localSize |-> (IF lockFocal THEN 0 ELSE 2)
                 + (IF lockCenter THEN 0 ELSE 2)
                 + (IF lockDistortion THEN 0 ELSE parametersSize - 4)]

IntrinsicsParameterization(parametersSize, focalRatio, lockFocal, lockFocalRatio, lockCenter, lockDistortion) ==
  LET distortionSize == parametersSize - 4
  IN [globalSize |-> parametersSize,
      focalRatio |-> focalRatio,
      lockFocal |-> lockFocal,
      lockFocalRatio |-> lockFocalRatio,
      lockCenter |-> lockCenter,
      lockDistortion |-> lockDistortion,
      distortionSize |-> distortionSize,
      localSize |-> (IF lockFocal THEN 0 ELSE IF lockFocalRatio THEN 1 ELSE 2)
                    + (IF lockCenter THEN 0 ELSE 2)
                    + (IF lockDistortion THEN 0 ELSE distortionSize)]

GlobalSize(param) == param.globalSize

LocalSize(param) == param.localSize

Plus_IgnoresLocks(param, x, delta) == [i \in 1..param.globalSize |-> x[i] + param.focalRatio]

\* Plus(x, delta): x and delta are 1-based here, x[i + 1] is the code's x[i]
Plus(param, x, delta) ==
  LET focalCount == IF param.lockFocal THEN 0 ELSE IF param.lockFocalRatio THEN 1 ELSE 2
      posCenter == focalCount
      posDistortion == posCenter + (IF param.lockCenter THEN 0 ELSE 2)
  IN [i \in 1..param.globalSize |->
        IF i = 1 /\ ~param.lockFocal THEN x[1] + delta[1]
        ELSE IF i = 2 /\ ~param.lockFocal
          THEN (IF param.lockFocalRatio THEN x[2] + param.focalRatio * delta[1]
                ELSE x[2] + delta[2])
        ELSE IF i \in {3, 4} /\ ~param.lockCenter THEN x[i] + delta[posCenter + (i - 2)]
        ELSE IF i >= 5 /\ ~param.lockDistortion THEN x[i] + delta[posDistortion + (i - 4)]
        ELSE x[i]]

ComputeJacobian_Zero(param) ==
  [row \in 0..(param.globalSize - 1) |-> [col \in 0..(param.localSize - 1) |-> 0]]

\* ComputeJacobian(x, jacobian): J(row, col), GlobalSize rows and LocalSize
\* columns, filled with 0 and then set where the unlocked parameters are
ComputeJacobian(param) ==
  LET focalCount == IF param.lockFocal THEN 0 ELSE IF param.lockFocalRatio THEN 1 ELSE 2
      posCenter == focalCount
      posDistortion == posCenter + (IF param.lockCenter THEN 0 ELSE 2)
  IN [row \in 0..(param.globalSize - 1) |-> [col \in 0..(param.localSize - 1) |->
        IF ~param.lockFocal /\ param.lockFocalRatio /\ col = 0 /\ row \in {0, 1}
          THEN (IF row = 0 THEN 1 ELSE param.focalRatio)
        ELSE IF ~param.lockFocal /\ ~param.lockFocalRatio /\ row \in {0, 1} /\ col = row
          THEN 1
        ELSE IF ~param.lockCenter /\ row \in {2, 3} /\ col = posCenter + (row - 2)
          THEN 1
        ELSE IF ~param.lockDistortion /\ row >= 4 /\ col = posDistortion + (row - 4)
          THEN 1
        ELSE 0]]

\* the indices of delta that Plus reads
PlusDeltaReads(param) ==
  LET focalCount == IF param.lockFocal THEN 0 ELSE IF param.lockFocalRatio THEN 1 ELSE 2
      posCenter == focalCount
      posDistortion == posCenter + (IF param.lockCenter THEN 0 ELSE 2)
  IN (IF param.lockFocal THEN {} ELSE 0..(focalCount - 1))
     \cup (IF param.lockCenter THEN {} ELSE {posCenter, posCenter + 1})
     \cup (IF param.lockDistortion THEN {}
           ELSE {posDistortion + i : i \in 0..(param.distortionSize - 1)})

(***************************************************************************)
(* addIntrinsicsToProblem.                                                 *)
(***************************************************************************)
intrinsicsUsage ==
  [i \in {views[v].intrinsicId : v \in DOMAIN views} |->
     Cardinality({v \in DOMAIN views :
                    views[v].intrinsicId = i /\ isPoseAndIntrinsicDefined(views[v])})]

minNbImagesToRefineOpticalCenter == 3

\* stands for the infinity or NaN of a division by zero in double arithmetic
NotFinite == 1000000

\* focalY / focalX
Ratio(a, b) == IF b = 0 THEN NotFinite ELSE a \div b

hasEnoughData_AtLeast(usageCount) == usageCount >= minNbImagesToRefineOpticalCenter

\* usageCount > minNbImagesToRefineOpticalCenter
hasEnoughData(usageCount) == usageCount > minNbImagesToRefineOpticalCenter

intrinsicIsSkipped_StateOnly(usageCount, state) == state = IGNORED

\* a referenced intrinsic the loop counts as ignored and skips
intrinsicIsSkipped(usageCount, state) == usageCount <= 0 \/ state = IGNORED

\* what one iteration of the loop over sfmData.getIntrinsics() does for intrinsicId
IntrinsicSetup(intrinsicId) ==
  LET cam == intrinsics[intrinsicId]
      refineIntrinsicsOpticalCenter ==
        REFINE_INTRINSICS_OPTICALOFFSET_ALWAYS \in refineOptions
        \/ REFINE_INTRINSICS_OPTICALOFFSET_IF_ENOUGH_DATA \in refineOptions
      refineIntrinsicsFocalLength == REFINE_INTRINSICS_FOCAL \in refineOptions
      refineIntrinsicsDistortion == REFINE_INTRINSICS_DISTORTION \in refineOptions
      refineIntrinsics == refineIntrinsicsDistortion \/ refineIntrinsicsFocalLength
                          \/ refineIntrinsicsOpticalCenter
      referenced == intrinsicId \in DOMAIN intrinsicsUsage
      usageCount == IF referenced THEN intrinsicsUsage[intrinsicId] ELSE 0
      intrinsicBlock == getParams(cam)
      hasInitialGuess == cam.initialScale[1] > 0 /\ cam.initialScale[2] > 0
      maxFocalError == (2 * Max(cam.w, cam.h)) \div 10
      focalLower == IF ~refineIntrinsicsFocalLength THEN EmptyMap
                    ELSE IF hasInitialGuess
                      THEN (0 :> (cam.initialScale[1] - maxFocalError))
                           @@ (1 :> (cam.initialScale[2] - maxFocalError))
                      ELSE (0 :> 0) @@ (1 :> 0)
      focalUpper == IF refineIntrinsicsFocalLength /\ hasInitialGuess
                      THEN (0 :> (cam.initialScale[1] + maxFocalError))
                           @@ (1 :> (cam.initialScale[2] + maxFocalError))
                      ELSE EmptyMap
      focalRatio == IF refineIntrinsicsFocalLength
                      THEN Ratio(intrinsicBlock[2], intrinsicBlock[1]) ELSE 1
      lockFocal == ~refineIntrinsicsFocalLength
      lockRatio == IF refineIntrinsicsFocalLength THEN cam.ratioLocked ELSE TRUE
      optional_center == REFINE_INTRINSICS_OPTICALOFFSET_IF_ENOUGH_DATA \in refineOptions
                         /\ hasEnoughData(usageCount)
      refineCenter == REFINE_INTRINSICS_OPTICALOFFSET_ALWAYS \in refineOptions \/ optional_center
      centerLower == IF refineCenter
                       THEN (2 :> (0 - ((5 * cam.w) \div 100))) @@ (3 :> (0 - ((5 * cam.h) \div 100)))
                       ELSE EmptyMap
      centerUpper == IF refineCenter
                       THEN (2 :> ((5 * cam.w) \div 100)) @@ (3 :> ((5 * cam.h) \div 100))
                       ELSE EmptyMap
      lockCenter == ~refineCenter
      lockDistortion == ~refineIntrinsicsDistortion
  IN
    IF ~referenced
      THEN [counted |-> FALSE, registered |-> FALSE]
    ELSE IF intrinsicIsSkipped(usageCount, intrinsicState[intrinsicId])
      THEN [counted |-> TRUE, registered |-> FALSE, state |-> IGNORED]
    ELSE IF cam.locked \/ ~refineIntrinsics \/ intrinsicState[intrinsicId] = Constant
      THEN [counted |-> TRUE, registered |-> TRUE, state |-> Constant,
            block |-> intrinsicBlock,
            entry |-> [size |-> Len(intrinsicBlock), constant |-> TRUE,
                       parameterization |-> "none",
                       lower |-> EmptyMap, upper |-> EmptyMap]]
    ELSE [counted |-> TRUE, registered |-> TRUE, state |-> REFINED,
          block |-> intrinsicBlock,
          entry |-> [size |-> Len(intrinsicBlock), constant |-> FALSE,
                     parameterization |->
                       IntrinsicsParameterization(Len(intrinsicBlock), focalRatio,
                                                  lockFocal, lockRatio, lockCenter, lockDistortion),
                     lower |-> focalLower @@ centerLower,
                     upper |-> focalUpper @@ centerUpper]]

addIntrinsicsToProblem ==
  /\ pc = "addIntrinsics"
  /\ LET setup == [i \in DOMAIN intrinsics |-> IntrinsicSetup(i)]
         counted(st) == {i \in DOMAIN intrinsics : setup[i].counted /\ setup[i].state = st}
         registered == {i \in DOMAIN intrinsics : setup[i].registered}
     IN
       /\ intrinsicsBlocks' = MapMerge(intrinsicsBlocks, [i \in registered |-> setup[i].block])
       /\ problem' = [problem EXCEPT !.parameterBlocks =
                        MapMerge(@, [b \in {IntrinsicBlock(i) : i \in registered} |-> setup[b.id].entry])]
       /\ statistics' = addStates(addStates(addStates(statistics,
                            INTRINSIC, IGNORED, Cardinality(counted(IGNORED))),
                            INTRINSIC, Constant, Cardinality(counted(Constant))),
                            INTRINSIC, REFINED, Cardinality(counted(REFINED)))
  /\ pc' = "addConstraints2D"
  /\ UNCHANGED <<sceneVars, inputVars, costVars, plusVars, fileVars, posesBlocks, rigBlocks, solverSteps, result, sceneBefore>>

(***************************************************************************)
(* Cost functions: what the constructors declare.                          *)
(***************************************************************************)
CostEquiDistant(fi, fj, intrinsic, withRig_one, withRig_two, withSameRig) ==
  [cost |-> "CostEquiDistant", fi |-> fi, fj |-> fj, intrinsic |-> intrinsic,
   withRig_one |-> withRig_one, withRig_two |-> withRig_two, withSameRig |-> withSameRig,
   parameter_block_sizes |->
     <<9, 9, Len(getParams(intrinsics[intrinsic]))>>
     \o (IF withRig_one THEN <<9>> ELSE <<>>)
     \o (IF withRig_two /\ ~withSameRig THEN <<9>> ELSE <<>>)]

CostPinHole(fi, fj, intrinsic, withRig_one, withRig_two, withSameRig) ==
  [cost |-> "CostPinHole", fi |-> fi, fj |-> fj, intrinsic |-> intrinsic,
   withRig_one |-> withRig_one, withRig_two |-> withRig_two, withSameRig |-> withSameRig,
   parameter_block_sizes |->
     <<9, 9, Len(getParams(intrinsics[intrinsic]))>>
     \o (IF withRig_one THEN <<9>> ELSE <<>>)
     \o (IF withRig_two /\ ~withSameRig THEN <<9>> ELSE <<>>)]

CostRotationPrior(two_R_one, withRig_one, withRig_two, withSameRig) ==
  [cost |-> "CostRotationPrior", two_R_one |-> two_R_one,
   withRig_one |-> withRig_one, withRig_two |-> withRig_two, withSameRig |-> withSameRig,
   parameter_block_sizes |->
     <<9, 9>>
     \o (IF withRig_one THEN <<9>> ELSE <<>>)
     \o (IF withRig_two /\ ~withSameRig THEN <<9>> ELSE <<>>)]

ResidualBlock_NoLoss(costFunction, lossFunction, parameters) ==
  [costFunction |-> costFunction, lossFunction |-> "NULL", parameters |-> parameters]

\* problem.AddResidualBlock(costFunction, lossFunction, parameters)
ResidualBlock(costFunction, lossFunction, parameters) ==
  [costFunction |-> costFunction, lossFunction |-> lossFunction, parameters |-> parameters]

(***************************************************************************)
(* Resolution of a view's rig sub-pose block, shared by the two loops.     *)
(***************************************************************************)
useRig(view) == isPartOfRig(view) /\ ~isPoseIndependant(view)

hasRigBlock(view) ==
  view.rigId \in DOMAIN rigBlocks /\ view.subPoseId \in DOMAIN rigBlocks[view.rigId]

rigBlockPtr(view) == IF useRig(view) THEN RigBlock(view.rigId, view.subPoseId) ELSE NullBlock

sameRigBlock_ByValue(ptr_1, ptr_2) ==
  rigs[ptr_1.rig][ptr_1.id].rotation = rigs[ptr_2.rig][ptr_2.id].rotation

\* the pointer comparison rigBlockPtr_1 == rigBlockPtr_2
sameRigBlock(ptr_1, ptr_2) == ptr_1 = ptr_2

(***************************************************************************)
(* addConstraints2DToProblem: one iteration of the loop.  ndebug tells     *)
(* whether the build compiles the assertions out.                          *)
(***************************************************************************)
Constraint2DStep(constraint, ndebug) ==
  LET view_1 == views[constraint.ViewFirst]
      view_2 == views[constraint.ViewSecond]
      statesOk == /\ poseState[view_1.poseId] # IGNORED
                  /\ intrinsicState[view_1.intrinsicId] # IGNORED
                  /\ poseState[view_2.poseId] # IGNORED
                  /\ intrinsicState[view_2.intrinsicId] # IGNORED
      poseBlockPtr_1 == PoseBlock(view_1.poseId)
      poseBlockPtr_2 == PoseBlock(view_2.poseId)
      intrinsicBlockPtr_1 == IntrinsicBlock(view_1.intrinsicId)
      intrinsicBlockPtr_2 == IntrinsicBlock(view_2.intrinsicId)
      withRig_1 == useRig(view_1)
      rigBlockPtr_1 == rigBlockPtr(view_1)
      withRig_2 == useRig(view_2)
      rigBlockPtr_2 == rigBlockPtr(view_2)
      withSameRig == withRig_1 /\ withRig_2 /\ sameRigBlock(rigBlockPtr_1, rigBlockPtr_2)
      type == intrinsics[view_1.intrinsicId].type
      parameters_direct ==
        <<poseBlockPtr_1, poseBlockPtr_2>>
        \o (IF withRig_1 THEN <<rigBlockPtr_1>> ELSE <<>>)
        \o (IF withRig_2 /\ ~withSameRig THEN <<rigBlockPtr_2>> ELSE <<>>)
        \o <<intrinsicBlockPtr_1>>
      parameters_indirect ==
        <<poseBlockPtr_2, poseBlockPtr_1>>
        \o (IF withRig_1 THEN <<rigBlockPtr_2>> ELSE <<>>)
        \o (IF withRig_2 /\ ~withSameRig THEN <<rigBlockPtr_1>> ELSE <<>>)
        \o <<intrinsicBlockPtr_1>>
      fi == constraint.ObservationFirst
      fj == constraint.ObservationSecond
  IN
    IF ~ndebug /\ ~statesOk
      THEN [outcome |-> "aborted", residuals |-> <<>>]
    ELSE IF view_1.poseId \notin DOMAIN posesBlocks \/ view_2.poseId \notin DOMAIN posesBlocks
      THEN [outcome |-> "threw", residuals |-> <<>>]
    ELSE IF view_1.intrinsicId \notin DOMAIN intrinsicsBlocks
            \/ view_2.intrinsicId \notin DOMAIN intrinsicsBlocks
      THEN [outcome |-> "threw", residuals |-> <<>>]
    ELSE IF ~ndebug /\ intrinsicBlockPtr_1 # intrinsicBlockPtr_2
      THEN [outcome |-> "aborted", residuals |-> <<>>]
    ELSE IF (withRig_1 /\ ~hasRigBlock(view_1)) \/ (withRig_2 /\ ~hasRigBlock(view_2))
      THEN [outcome |-> "threw", residuals |-> <<>>]
    ELSE IF type = EQUIDISTANT
      THEN [outcome |-> "added",
            residuals |->
              << ResidualBlock(CostEquiDistant(fi, fj, view_1.intrinsicId, withRig_1, withRig_2, withSameRig),
                               "HuberLoss", parameters_direct),
                 ResidualBlock(CostEquiDistant(fj, fi, view_1.intrinsicId, withRig_2, withRig_1, withSameRig),
                               "HuberLoss", parameters_indirect) >>]
    ELSE IF type = PINHOLE
      THEN [outcome |-> "added",
            residuals |->
              << ResidualBlock(CostPinHole(fi, fj, view_1.intrinsicId, withRig_1, withRig_2, withSameRig),
                               "HuberLoss", parameters_direct),
                 ResidualBlock(CostPinHole(fj, fi, view_1.intrinsicId, withRig_2, withRig_1, withSameRig),
                               "HuberLoss", parameters_indirect) >>]
    ELSE [outcome |-> "returned", residuals |-> <<>>]

loopGoesOn_Always(outcome) == TRUE

\* the loop goes on to the next constraint
loopGoesOn(outcome) == outcome = "added"

\* the loop over sfmData.getConstraints2D() from constraint k on
RECURSIVE Constraints2DLoop(_, _, _)
Constraints2DLoop(k, added, ndebug) ==
  IF k > Len(constraints2D)
    THEN [outcome |-> "completed", residuals |-> added]
  ELSE LET step == Constraint2DStep(constraints2D[k], ndebug)
       IN IF loopGoesOn(step.outcome)
            THEN Constraints2DLoop(k + 1, added \o step.residuals, ndebug)
            ELSE [outcome |-> step.outcome, residuals |-> added]

earlyReturnIsReported_ToCaller(outcome) == outcome = "returned"

\* the function is void and createProblem goes on to the rotation priors:
\* the return on an incompatible camera does not end adjust
earlyReturnIsReported(outcome) == FALSE

addConstraints2DToProblem ==
  /\ pc = "addConstraints2D"
  /\ \E ndebug \in BOOLEAN :
       LET loop == Constraints2DLoop(1, <<>>, ndebug)
       IN /\ problem' = [problem EXCEPT !.residualBlocks = @ \o loop.residuals]
          /\ pc' = CASE loop.outcome = "threw" -> "threw"
                     [] loop.outcome = "aborted" -> "aborted"
                     [] earlyReturnIsReported(loop.outcome) -> "done"
                     [] OTHER -> "addRotationPriors"
          /\ result' = IF earlyReturnIsReported(loop.outcome) THEN "false" ELSE result
  /\ UNCHANGED <<sceneVars, inputVars, costVars, plusVars, fileVars, baVars, solverSteps, sceneBefore>>

(***************************************************************************)
(* addRotationPriorsToProblem.                                             *)
(***************************************************************************)
RotationPriorStep(prior, ndebug) ==
  LET view_1 == views[prior.ViewFirst]
      view_2 == views[prior.ViewSecond]
      statesOk == poseState[view_1.poseId] # IGNORED /\ poseState[view_2.poseId] # IGNORED
      poseBlockPtr_1 == PoseBlock(view_1.poseId)
      poseBlockPtr_2 == PoseBlock(view_2.poseId)
      withRig_1 == useRig(view_1)
      rigBlockPtr_1 == rigBlockPtr(view_1)
      withRig_2 == useRig(view_2)
      rigBlockPtr_2 == rigBlockPtr(view_2)
      withSameRig == withRig_1 /\ withRig_2 /\ sameRigBlock(rigBlockPtr_1, rigBlockPtr_2)
      parameters ==
        <<poseBlockPtr_1, poseBlockPtr_2>>
        \o (IF withRig_1 THEN <<rigBlockPtr_1>> ELSE <<>>)
        \o (IF withRig_2 /\ ~withSameRig THEN <<rigBlockPtr_2>> ELSE <<>>)
  IN
    IF ~ndebug /\ ~statesOk
      THEN [outcome |-> "aborted", residuals |-> <<>>]
    ELSE IF view_1.poseId \notin DOMAIN posesBlocks \/ view_2.poseId \notin DOMAIN posesBlocks
      THEN [outcome |-> "threw", residuals |-> <<>>]
    ELSE IF (withRig_1 /\ ~hasRigBlock(view_1)) \/ (withRig_2 /\ ~hasRigBlock(view_2))
      THEN [outcome |-> "threw", residuals |-> <<>>]
    ELSE [outcome |-> "added",
          residuals |->
            << ResidualBlock(CostRotationPrior(prior.second_R_first, withRig_1, withRig_2, withSameRig),
                             "NULL", parameters) >>]

RECURSIVE RotationPriorsLoop(_, _, _)
RotationPriorsLoop(k, added, ndebug) ==
  IF k > Len(rotationPriors)
    THEN [outcome |-> "completed", residuals |-> added]
  ELSE LET step == RotationPriorStep(rotationPriors[k], ndebug)
       IN IF step.outcome = "added"
            THEN RotationPriorsLoop(k + 1, added \o step.residuals, ndebug)
            ELSE [outcome |-> step.outcome, residuals |-> added]

addRotationPriorsToProblem ==
  /\ pc = "addRotationPriors"
  /\ \E ndebug \in BOOLEAN :
       LET loop == RotationPriorsLoop(1, <<>>, ndebug)
       IN /\ problem' = [problem EXCEPT !.residualBlocks = @ \o loop.residuals]
          /\ pc' = CASE loop.outcome = "threw" -> "threw"
                     [] loop.outcome = "aborted" -> "aborted"
                     [] OTHER -> "solve"
  /\ UNCHANGED <<sceneVars, inputVars, costVars, plusVars, fileVars, baVars, solverSteps, result, sceneBefore>>

(***************************************************************************)
(* Evaluate of the cost functions, as far as it touches shared state: the  *)
(* parameter indices it reads, and the camera object it writes.            *)
(***************************************************************************)
\* value of the block a pointer refers to, in the given block memories
BlockValue(pb, rb, ib, ptr) ==
  CASE ptr.kind = "pose" -> pb[ptr.id]
    [] ptr.kind = "rig" -> rb[ptr.rig][ptr.id]
    [] ptr.kind = "intrinsic" -> ib[ptr.id]

\* 0-based index of the first rig block in parameters: 2 for the prior, 3 otherwise
rigBase(costFunction) == IF costFunction.cost = "CostRotationPrior" THEN 2 ELSE 3

\* 0-based indices of parameters that Evaluate reads as 3x3 rotations
EvaluateRotationReads(costFunction) ==
  {0, 1}
  \cup (IF costFunction.withRig_one THEN {rigBase(costFunction)} ELSE {})
  \cup (IF costFunction.withRig_two
          THEN (IF costFunction.withSameRig THEN {rigBase(costFunction)}
                ELSE {rigBase(costFunction) + 1})
          ELSE {})

\* 0-based indices of parameters that Evaluate reads
EvaluateReads(costFunction) ==
  EvaluateRotationReads(costFunction)
  \cup (IF costFunction.cost = "CostRotationPrior" THEN {} ELSE {2})

\* Evaluate dereferences a null pointer
EvaluateReadsNull(residual) ==
  \E i \in EvaluateReads(residual.costFunction) :
    i < Len(residual.parameters) /\ residual.parameters[i + 1] = NullBlock

\* Evaluate reads past the end of the parameters array or of a block
EvaluateReadsOutOfBounds(residual, pb, rb, ib) ==
  \/ \E i \in EvaluateReads(residual.costFunction) : i >= Len(residual.parameters)
  \/ \E i \in EvaluateRotationReads(residual.costFunction) :
       /\ i < Len(residual.parameters)
       /\ residual.parameters[i + 1] # NullBlock
       /\ Len(BlockValue(pb, rb, ib, residual.parameters[i + 1])) < 9

\* setScale, setOffset, setDistortionParams on the shared camera object
EvaluateSetIntrinsic(cam, costFunction, parameter_intrinsics) ==
  IF costFunction.cost = "CostEquiDistant"
    THEN [cam EXCEPT !.scale = <<parameter_intrinsics[1], parameter_intrinsics[2]>>,
                     !.offset = <<parameter_intrinsics[3], parameter_intrinsics[4]>>,
                     !.distortion = <<parameter_intrinsics[5], parameter_intrinsics[6],
                                      parameter_intrinsics[7]>>]
    ELSE LET params_size == Len(getParams(cam))
             disto_size == Len(cam.distortion)
             offset == params_size - disto_size
         IN [cam EXCEPT !.scale = <<parameter_intrinsics[1], parameter_intrinsics[2]>>,
                        !.offset = <<parameter_intrinsics[3], parameter_intrinsics[4]>>,
                        !.distortion = [k \in 1..disto_size |-> parameter_intrinsics[offset + k]]]

\* the cameras after Evaluate of one residual block
Evaluate(cams, residual, pb, rb, ib) ==
  IF residual.costFunction.cost = "CostRotationPrior"
    THEN cams
    ELSE [cams EXCEPT ![residual.costFunction.intrinsic] =
            EvaluateSetIntrinsic(@, residual.costFunction,
                                 BlockValue(pb, rb, ib, residual.parameters[3]))]

\* the solver evaluates the residual blocks in order
RECURSIVE EvaluateAll(_, _, _, _, _)
EvaluateAll(cams, k, pb, rb, ib) ==
  IF k > Len(problem.residualBlocks)
    THEN cams
    ELSE EvaluateAll(Evaluate(cams, problem.residualBlocks[k], pb, rb, ib), k + 1, pb, rb, ib)

(***************************************************************************)
(* ceres::Solve: an evaluation at the initial point, then trial steps on   *)
(* the blocks that are not constant, each evaluated, accepted or rejected. *)
(***************************************************************************)
IsVariable(ptr) ==
  ptr \in DOMAIN problem.parameterBlocks /\ ~problem.parameterBlocks[ptr].constant

ClampToBounds(entry, x) ==
  [i \in 1..Len(x) |->
     LET lo == IF (i - 1) \in DOMAIN entry.lower /\ x[i] < entry.lower[i - 1]
               THEN entry.lower[i - 1] ELSE x[i]
     IN  IF (i - 1) \in DOMAIN entry.upper /\ lo > entry.upper[i - 1]
         THEN entry.upper[i - 1] ELSE lo]

\* SO3::LocalParameterization::Plus with a quarter turn as step
TrialRotation(x) == MatMul(RotZ90, x)

TrialIntrinsic(entry, x) ==
  ClampToBounds(entry, Plus(entry.parameterization, x,
                            [k \in 1..LocalSize(entry.parameterization) |-> 1]))

TrialPoses ==
  [p \in DOMAIN posesBlocks |->
     IF IsVariable(PoseBlock(p)) THEN TrialRotation(posesBlocks[p]) ELSE posesBlocks[p]]

TrialRigs ==
  [r \in DOMAIN rigBlocks |-> [s \in DOMAIN rigBlocks[r] |->
     IF IsVariable(RigBlock(r, s)) THEN TrialRotation(rigBlocks[r][s]) ELSE rigBlocks[r][s]]]

TrialIntrinsics ==
  [i \in DOMAIN intrinsicsBlocks |->
     IF IsVariable(IntrinsicBlock(i))
       THEN TrialIntrinsic(problem.parameterBlocks[IntrinsicBlock(i)], intrinsicsBlocks[i])
       ELSE intrinsicsBlocks[i]]

SolverFaultNull == \E k \in 1..Len(problem.residualBlocks) : EvaluateReadsNull(problem.residualBlocks[k])

SolverFaultBounds(pb, rb, ib) ==
  \E k \in 1..Len(problem.residualBlocks) :
    EvaluateReadsOutOfBounds(problem.residualBlocks[k], pb, rb, ib)

\* Evaluate of every residual block at the given point; a null dereference
\* ends the process, an out-of-bounds read may end it or go unnoticed
SolverEvaluate(pb, rb, ib, nextPc) ==
  IF SolverFaultNull
    THEN /\ pc' = "crashed"
         /\ UNCHANGED intrinsics
    ELSE \/ /\ SolverFaultBounds(pb, rb, ib)
            /\ pc' = "crashed"
            /\ UNCHANGED intrinsics
         \/ /\ pc' = nextPc
            /\ intrinsics' = EvaluateAll(intrinsics, 1, pb, rb, ib)

SolveBegin ==
  /\ pc = "solve"
  /\ SolverEvaluate(posesBlocks, rigBlocks, intrinsicsBlocks, "iterating")
  /\ UNCHANGED <<poses, rigs, views, constraints2D, rotationPriors, inputVars, costVars, plusVars, fileVars, baVars,
                 problem, solverSteps, result, sceneBefore>>

SolverIteration ==
  /\ pc = "iterating"
  /\ solverSteps < MaxSolverSteps
  /\ solverSteps' = solverSteps + 1
  /\ SolverEvaluate(TrialPoses, TrialRigs, TrialIntrinsics, "iterating")
  /\ \E accept \in BOOLEAN :
       IF accept /\ pc' = "iterating"
         THEN /\ posesBlocks' = TrialPoses
              /\ rigBlocks' = TrialRigs
              /\ intrinsicsBlocks' = TrialIntrinsics
         ELSE UNCHANGED <<posesBlocks, rigBlocks, intrinsicsBlocks>>
  /\ UNCHANGED <<poses, rigs, views, constraints2D, rotationPriors, inputVars, costVars, plusVars, fileVars, statistics,
                 problem, result, sceneBefore>>

\* Solve returns; summary.IsSolutionUsable() decides what adjust does next
SolveReturn ==
  /\ pc = "iterating"
  /\ \E usable \in BOOLEAN :
       IF usable
         THEN pc' = "updateFromSolution" /\ UNCHANGED result
         ELSE pc' = "done" /\ result' = "false"
  /\ UNCHANGED <<sceneVars, inputVars, costVars, plusVars, fileVars, baVars, problem, solverSteps, sceneBefore>>

(***************************************************************************)
(* updateFromSolution and the end of adjust.                               *)
(***************************************************************************)
poseFromRT(R, t) == [rotation |-> R, translation |-> t]

updateFromParams(cam, params) ==
  IF Len(params) # Len(getParams(cam)) THEN cam
  ELSE [cam EXCEPT !.scale = <<params[1], params[2]>>,
                   !.offset = <<params[3], params[4]>>,
                   !.distortion = [k \in 1..(Len(params) - 4) |-> params[4 + k]]]

poseIsWrittenBack_NotIgnored(refinePoses, state) == refinePoses /\ state # IGNORED

\* a pose the loop of updateFromSolution overwrites
poseIsWrittenBack(refinePoses, state) == refinePoses /\ state = REFINED

subPoseIsWrittenBack_Refinable(refinePoses, status) == refinePoses /\ status = REFINABLE

\* updateFromSolution has no loop over the rigs of the scene
subPoseIsWrittenBack(refinePoses, status) == FALSE

intrinsicIsWrittenBack_Never(refineIntrinsics, state) == FALSE

\* an intrinsic with a block that the loop of updateFromSolution updates
intrinsicIsWrittenBack(refineIntrinsics, state) == refineIntrinsics /\ state = REFINED

updateFromSolution ==
  /\ pc = "updateFromSolution"
  /\ LET refinePoses == REFINE_ROTATION \in refineOptions \/ REFINE_TRANSLATION \in refineOptions
         refineIntrinsicsOpticalCenter ==
           REFINE_INTRINSICS_OPTICALOFFSET_ALWAYS \in refineOptions
           \/ REFINE_INTRINSICS_OPTICALOFFSET_IF_ENOUGH_DATA \in refineOptions
         refineIntrinsics == REFINE_INTRINSICS_FOCAL \in refineOptions
                             \/ REFINE_INTRINSICS_DISTORTION \in refineOptions
                             \/ refineIntrinsicsOpticalCenter
         T(p) == poseFromRT(posesBlocks[p], <<0, 0, 0>>)
     IN /\ poses' = [p \in DOMAIN poses |->
                       IF poseIsWrittenBack(refinePoses, poseState[p])
                         THEN [poses[p] EXCEPT !.rotation = T(p).rotation,
                                               !.translation = T(p).translation]
                         ELSE poses[p]]
        /\ rigs' = [r \in DOMAIN rigs |-> [s \in DOMAIN rigs[r] |->
                      IF subPoseIsWrittenBack(refinePoses, rigs[r][s].status)
                        THEN [rigs[r][s] EXCEPT !.rotation = rigBlocks[r][s]]
                        ELSE rigs[r][s]]]
        /\ intrinsics' = [i \in DOMAIN intrinsics |->
                            IF i \in DOMAIN intrinsicsBlocks
                               /\ intrinsicIsWrittenBack(refineIntrinsics, intrinsicState[i])
                              THEN updateFromParams(intrinsics[i], intrinsicsBlocks[i])
                              ELSE intrinsics[i]]
  /\ pc' = "storeStatistics"
  /\ UNCHANGED <<views, constraints2D, rotationPriors, inputVars, costVars, plusVars, fileVars, baVars,
                 problem, solverSteps, result, sceneBefore>>

num_residuals(residual) == IF residual.costFunction.cost = "CostRotationPrior" THEN 3 ELSE 2

RECURSIVE summary_num_residuals(_)
summary_num_residuals(k) ==
  IF k > Len(problem.residualBlocks) THEN 0
  ELSE num_residuals(problem.residualBlocks[k]) + summary_num_residuals(k + 1)

adjustReturn ==
  /\ pc = "storeStatistics"
  /\ statistics' = [statistics EXCEPT !.nbResidualBlocks = summary_num_residuals(1)]
  /\ result' = "true"
  /\ pc' = "done"
  /\ UNCHANGED <<sceneVars, inputVars, costVars, plusVars, fileVars, posesBlocks, rigBlocks, intrinsicsBlocks,
                 problem, solverSteps, sceneBefore>>

\* the caller calls adjust again on the same instance, after the local
\* strategy has possibly set the last pose to IGNORED
adjustAgain ==
  /\ pc = "done"
  /\ adjustCalls < MaxCalls
  /\ adjustCalls' = adjustCalls + 1
  /\ pc' = "idle"
  /\ \E ignoreLast \in BOOLEAN :
       poseState' = IF ignoreLast THEN [poseState EXCEPT ![NViews] = IGNORED] ELSE poseState
  /\ UNCHANGED <<sceneVars, intrinsicState, refineOptions, costVars, plusVars, fileVars, baVars, problem,
                 solverSteps, result, sceneBefore>>

Next ==
  \/ resetProblem
  \/ addExtrinsicsToProblem
  \/ addIntrinsicsToProblem
  \/ addConstraints2DToProblem
  \/ addRotationPriorsToProblem
  \/ SolveBegin
  \/ SolverIteration
  \/ SolveReturn
  \/ updateFromSolution
  \/ adjustReturn

Spec == Init /\ [][Next]_vars

(***************************************************************************)
(* Statistics::exportToFile, called after adjust has returned.  The file   *)
(* is a sequence of lines; the stream position at its end is zero exactly  *)
(* when no line has been written.                                          *)
(***************************************************************************)
HeaderLine ==
  [kind |-> "header",
   columns |-> <<"Time/BA(s)", "RefinedPose", "ConstPose", "IgnoredPose",
                 "RefinedPts", "ConstPts", "IgnoredPts",
                 "RefinedK", "ConstK", "IgnoredK",
                 "ResidualBlocks", "SuccessIteration", "BadIteration",
                 "InitRMSE", "FinalRMSE",
                 "d=-1", "d=0", "d=1", "d=2", "d=3", "d=4",
                 "d=5", "d=6", "d=7", "d=8", "d=9", "d=10+">>]

\* the line of values; nbCamerasPerDistance is never filled by this class
DataLine(stats) ==
  [kind |-> "data",
   values |-> <<"time",
                stats.parametersStates[POSE][REFINED],
                stats.parametersStates[POSE][Constant],
                stats.parametersStates[POSE][IGNORED],
                stats.parametersStates[INTRINSIC][REFINED],
                stats.parametersStates[INTRINSIC][Constant],
                stats.parametersStates[INTRINSIC][IGNORED],
                stats.nbResidualBlocks,
                "nbSuccessfullIterations", "nbUnsuccessfullIterations",
                "RMSEinitial", "RMSEfinal">>
              \o [i \in 1..11 |-> 0]
              \o <<0>>]

needsHeader_Always(lines) == TRUE

\* os.tellp() == std::streampos(0) after os.seekp(0, std::ios::end)
needsHeader(lines) == lines = <<>>

exportToFile ==
  /\ pc = "done"
  /\ Len(exportReturns) < MaxExports
  /\ \E is_open \in BOOLEAN :
       IF ~is_open
         THEN /\ exportReturns' = Append(exportReturns, FALSE)
              /\ UNCHANGED file
         ELSE /\ file' = [exists |-> TRUE,
                          lines |-> file.lines
                                    \o (IF needsHeader(file.lines) THEN <<HeaderLine>> ELSE <<>>)
                                    \o <<DataLine(statistics)>>]
              /\ exportReturns' = Append(exportReturns, TRUE)
  /\ UNCHANGED <<sceneVars, inputVars, baVars, problem, pc, solverSteps, result, sceneBefore,
                 costVars, plusVars>>

InitExport ==
  /\ \E pcfg \in PoseConfigs, scfg \in SubPoseConfigs, icfg \in IntrinsicConfigs,
        options \in {RefineAll, {}}, nC \in 0..MaxConstraints :
       SceneInit(pcfg, scfg, <<NoRig, NoRig>>, FALSE, icfg, PINHOLE, options, nC, MaxPriors)
  /\ evalCost = NoEvaluation
  /\ evalParameters = <<>>
  /\ evalRequest = [jacobians |-> "nullptr", nonNull |-> {}]
  /\ evalResult = NoEvaluation
  /\ parameterization = NoEvaluation
  /\ plusX = <<>>
  /\ plusDelta = <<>>
  /\ plusResult = NoEvaluation
  /\ plusJacobian = NoEvaluation
  /\ file \in {AbsentFile, EmptyFile}
  /\ exportReturns = <<>>

NextExport == Next \/ exportToFile

SpecExport == InitExport /\ [][NextExport]_vars

(***************************************************************************)
(* adjust under every combination of the intrinsic refine options, on the  *)
(* scenes that differ in how many reconstructed views use an intrinsic.    *)
(***************************************************************************)
IntrinsicRefineFlags ==
  {REFINE_INTRINSICS_FOCAL, REFINE_INTRINSICS_DISTORTION,
   REFINE_INTRINSICS_OPTICALOFFSET_ALWAYS, REFINE_INTRINSICS_OPTICALOFFSET_IF_ENOUGH_DATA}

InitIntrinsics ==
  /\ \E flags \in SUBSET IntrinsicRefineFlags, icfg \in IntrinsicConfigs,
        type \in {PINHOLE, EQUIDISTANT}, nC \in 0..MaxConstraints :
       SceneInit(<<0, REFINED>>, <<-1, REFINABLE>>, <<NoRig, NoRig>>, FALSE, icfg, type,
                 flags \cup {REFINE_ROTATION}, nC, MaxPriors)
  /\ evalCost = NoEvaluation
  /\ evalParameters = <<>>
  /\ evalRequest = [jacobians |-> "nullptr", nonNull |-> {}]
  /\ evalResult = NoEvaluation
  /\ NoPlus

SpecIntrinsics == InitIntrinsics /\ [][Next]_vars

(***************************************************************************)
(* Several adjust calls on one instance, over the scenes without special   *)
(* intrinsic, with one 2D constraint and the rotation priors.              *)
(***************************************************************************)
InitCalls ==
  /\ \E pcfg \in PoseConfigs, scfg \in SubPoseConfigs,
        layout \in {<<NoRig, NoRig>>, <<0, NSubPoses - 1>>}, options \in {RefineAll, {}} :
       SceneInit(pcfg, scfg, layout, FALSE, <<"shared", REFINED>>, PINHOLE, options, 1, MaxPriors)
  /\ evalCost = NoEvaluation
  /\ evalParameters = <<>>
  /\ evalRequest = [jacobians |-> "nullptr", nonNull |-> {}]
  /\ evalResult = NoEvaluation
  /\ NoPlus

NextCalls == Next \/ adjustAgain

SpecCalls == InitCalls /\ [][NextCalls]_vars

(***************************************************************************)
(* Evaluate of the cost functions as a function of the parameters array:   *)
(* the residual and the jacobians it writes.  A jacobian is a sum (bag) of *)
(* products (sequences) of the factors the code multiplies, each factor    *)
(* named after the helper that yields it, with the matrices it is given.   *)
(***************************************************************************)
RotZ180 == MatMul(RotZ90, RotZ90)
RotZ270 == MatMul(RotZ180, RotZ90)
ZRotations == {Identity3, RotZ90, RotZ180, RotZ270}

\* SO3::logm on the rotations about z, angle in degrees
logm(R) ==
  CASE R = Identity3 -> <<0, 0, 0>>
    [] R = RotZ90 -> <<0, 0, 90>>
    [] R = RotZ180 -> <<0, 0, 180>>
    [] R = RotZ270 -> <<0, 0, -90>>

dlogmdr(R) == [f |-> "dlogmdr", a |-> R, b |-> <<>>]
getJacobian_AB_wrt_A(A, B) == [f |-> "getJacobian_AB_wrt_A", a |-> A, b |-> B]
getJacobian_AB_wrt_B(A, B) == [f |-> "getJacobian_AB_wrt_B", a |-> A, b |-> B]
getJacobian_At_wrt_A == [f |-> "getJacobian_At_wrt_A", a |-> <<>>, b |-> <<>>]

\* a method of the camera object, with the camera's parameters, the pose and the point
CameraFactor(name, cameraParams, T, pt) == [f |-> name, a |-> T, b |-> <<cameraParams, pt>>]

Product(factors) == SetToBag({factors})

AccumulateSameRig_Overwrite(J, contribution) == contribution

\* J += contribution
AccumulateSameRig(J, contribution) == J (+) contribution

\* parameters[i], or whatever lies behind the array when i is past its end
ParameterAt(params, i, garbage) == IF i < Len(params) THEN params[i + 1] ELSE garbage

\* the jacobians Evaluate writes: index |-> value.  jacobians[i] is tested
\* for each index the code reaches; an index past the end of the array of
\* the declared blocks yields whatever pointer lies there.
WriteJacobians(cf, request, written, wild) ==
  IF request.jacobians = "nullptr"
    THEN EmptyMap
    ELSE [i \in {j \in DOMAIN written :
                   IF j < Len(cf.parameter_block_sizes) THEN j \in request.nonNull ELSE wild}
            |-> written[i]]

CostRotationPriorEvaluate(cf, params, request, garbage, wild) ==
  LET oneRo == params[1]
      twoRo == params[2]
      coneRone == IF cf.withRig_one THEN ParameterAt(params, 2, garbage) ELSE Identity3
      ctwoRtwo == IF cf.withRig_two
                    THEN (IF cf.withSameRig THEN ParameterAt(params, 2, garbage)
                          ELSE ParameterAt(params, 3, garbage))
                    ELSE Identity3
      coneRo == MatMul(coneRone, oneRo)
      ctwoRo == MatMul(ctwoRtwo, twoRo)
      ctwo_R_cone_est == MatMul(ctwoRo, Transpose(coneRo))
      error_R == MatMul(ctwo_R_cone_est, Transpose(cf.two_R_one))
      outer == <<dlogmdr(error_R), getJacobian_AB_wrt_A(ctwo_R_cone_est, Transpose(cf.two_R_one))>>
      J_one == Product(outer \o <<getJacobian_AB_wrt_B(ctwoRo, Transpose(coneRo)), getJacobian_At_wrt_A,
                                  getJacobian_AB_wrt_B(coneRone, oneRo),
                                  getJacobian_AB_wrt_A(Identity3, oneRo)>>)
      J_two == Product(outer \o <<getJacobian_AB_wrt_A(ctwoRo, Transpose(coneRo)),
                                  getJacobian_AB_wrt_B(ctwoRtwo, twoRo),
                                  getJacobian_AB_wrt_A(Identity3, twoRo)>>)
      J_rig_one == Product(outer \o <<getJacobian_AB_wrt_B(ctwoRo, Transpose(coneRo)), getJacobian_At_wrt_A,
                                      getJacobian_AB_wrt_A(coneRone, oneRo),
                                      getJacobian_AB_wrt_A(Identity3, coneRone)>>)
      J_rig_two == Product(outer \o <<getJacobian_AB_wrt_A(ctwoRo, Transpose(coneRo)),
                                      getJacobian_AB_wrt_A(ctwoRtwo, twoRo),
                                      getJacobian_AB_wrt_A(Identity3, ctwoRtwo)>>)
      written == (0 :> J_one) @@ (1 :> J_two)
                 @@ (IF cf.withRig_one
                       THEN (2 :> (IF cf.withSameRig THEN AccumulateSameRig(J_rig_one, J_rig_two)
                                   ELSE J_rig_one))
                       ELSE EmptyMap)
                 @@ (IF cf.withRig_two /\ ~cf.withSameRig THEN (3 :> J_rig_two) ELSE EmptyMap)
  IN [cost |-> cf.cost,
      residuals |-> logm(error_R),
      jacobians |-> WriteJacobians(cf, request, written, wild),
      reads |-> EvaluateReads(cf),
      tested |-> IF request.jacobians = "nullptr" THEN {} ELSE DOMAIN written]

\* CostEquiDistant::Evaluate and CostPinHole::Evaluate; they differ in the
\* distortion they set and in the chain of the scale block
CostReprojectionEvaluate(cf, params, request, garbage, wild) ==
  LET iRo == params[1]
      jRo == params[2]
      parameter_intrinsics == params[3]
      ciRi == IF cf.withRig_one THEN ParameterAt(params, 3, garbage) ELSE Identity3
      cjRj == IF cf.withRig_two
                THEN (IF cf.withSameRig THEN ParameterAt(params, 3, garbage)
                      ELSE ParameterAt(params, 4, garbage))
                ELSE Identity3
      ciRo == MatMul(ciRi, iRo)
      cjRo == MatMul(cjRj, jRo)
      R == MatMul(cjRo, Transpose(ciRo))
      K == parameter_intrinsics
      M(name, pt) == CameraFactor(name, K, R, pt)
      Jhomogenous == [f |-> "Jhomogenous", a |-> <<>>, b |-> <<>>]
      dRotation == M("getDerivativeProjectWrtRotation", "pt_i_sphere")
      dPoint == M("getDerivativeProjectWrtPoint", "pt_i_sphere")
      toSphere == M("getDerivativetoUnitSphereWrtPoint", "pt_i_undist")
      J_i == Product(<<dRotation, getJacobian_AB_wrt_B(cjRo, Transpose(ciRo)), getJacobian_At_wrt_A,
                       getJacobian_AB_wrt_B(ciRi, iRo), getJacobian_AB_wrt_A(Identity3, iRo)>>)
      J_j == Product(<<dRotation, getJacobian_AB_wrt_A(cjRo, Transpose(ciRo)),
                       getJacobian_AB_wrt_B(cjRj, jRo), getJacobian_AB_wrt_A(Identity3, jRo)>>)
      Jscale == Product(<<M("getDerivativeProjectWrtScale", "pt_i_sphere")>>)
                (+) (IF cf.cost = "CostEquiDistant"
                       THEN Product(<<dPoint, Jhomogenous,
                                      M("getDerivativetoUnitSphereWrtScale", "pt_i_undist")>>)
                       ELSE Product(<<dPoint, Jhomogenous, toSphere,
                                      M("getDerivativeRemoveDistoWrtPt", "pt_i_cam"),
                                      M("getDerivativeIma2CamWrtScale", "pt_i")>>))
      Jpp == Product(<<M("getDerivativeProjectWrtPrincipalPoint", "pt_i_sphere")>>)
             (+) Product(<<dPoint, Jhomogenous, toSphere,
                           M("getDerivativeRemoveDistoWrtPt", "pt_i_cam"),
                           M("getDerivativeIma2CamWrtPrincipalPoint", "none")>>)
      Jdisto == Product(<<M("getDerivativeProjectWrtDisto", "pt_i_sphere")>>)
                (+) Product(<<dPoint, Jhomogenous, toSphere,
                              M("getDerivativeRemoveDistoWrtDisto", "pt_i_cam")>>)
      J_intrinsics == [Jscale |-> Jscale, Jpp |-> Jpp, Jdisto |-> Jdisto]
      J_rig_i == Product(<<dRotation, getJacobian_AB_wrt_B(cjRo, Transpose(ciRo)), getJacobian_At_wrt_A,
                           getJacobian_AB_wrt_A(ciRi, iRo), getJacobian_AB_wrt_A(Identity3, ciRi)>>)
      J_rig_j == Product(<<dRotation, getJacobian_AB_wrt_A(cjRo, Transpose(ciRo)),
                           getJacobian_AB_wrt_A(cjRj, jRo), getJacobian_AB_wrt_A(Identity3, cjRj)>>)
      index == IF cf.withRig_one THEN 4 ELSE 3
      written == (0 :> J_i) @@ (1 :> J_j) @@ (2 :> J_intrinsics)
                 @@ (IF cf.withRig_one
                       THEN (3 :> (IF cf.withSameRig THEN AccumulateSameRig(J_rig_i, J_rig_j)
                                   ELSE J_rig_i))
                       ELSE EmptyMap)
                 @@ (IF cf.withRig_two /\ ~cf.withSameRig THEN (index :> J_rig_j) ELSE EmptyMap)
  IN [cost |-> cf.cost,
      residuals |-> [pt_j_est |-> [project |-> R, intrinsics |-> K, pt_i |-> cf.fi], pt_j |-> cf.fj],
      jacobians |-> WriteJacobians(cf, request, written, wild),
      reads |-> EvaluateReads(cf),
      tested |-> IF request.jacobians = "nullptr" THEN {} ELSE DOMAIN written]

CostEvaluate(cf, params, request, garbage, wild) ==
  IF cf.cost = "CostRotationPrior"
    THEN CostRotationPriorEvaluate(cf, params, request, garbage, wild)
    ELSE CostReprojectionEvaluate(cf, params, request, garbage, wild)

(***************************************************************************)
(* The cost functions on their own: a cost function is built with one of   *)
(* the flag combinations the assembly passes and evaluated on a parameters *)
(* array of the declared layout.                                           *)
(***************************************************************************)
RigFlags ==
  { <<FALSE, FALSE, FALSE>>, <<TRUE, FALSE, FALSE>>, <<FALSE, TRUE, FALSE>>,
    <<TRUE, TRUE, FALSE>>, <<TRUE, TRUE, TRUE>> }

RigRotations == {Identity3, RotZ90}

CostKinds == {"CostRotationPrior", "CostEquiDistant", "CostPinHole"}

MakeCost(kind, flags) ==
  CASE kind = "CostRotationPrior" -> CostRotationPrior(RotZ90, flags[1], flags[2], flags[3])
    [] kind = "CostEquiDistant" -> CostEquiDistant(1, 2, 1, flags[1], flags[2], flags[3])
    [] kind = "CostPinHole" -> CostPinHole(1, 2, 1, flags[1], flags[2], flags[3])

\* a parameters array of the layout the constructor declares
DeclaredParameters(cf, rot_one, rot_two, intrinsic, rig_one, rig_two) ==
  <<rot_one, rot_two>>
  \o (IF cf.cost = "CostRotationPrior" THEN <<>> ELSE <<intrinsic>>)
  \o (IF cf.withRig_one THEN <<rig_one>> ELSE <<>>)
  \o (IF cf.withRig_two /\ ~cf.withSameRig THEN <<rig_two>> ELSE <<>>)

NoRequest == [jacobians |-> "nullptr", nonNull |-> {}]

\* residuals only, every jacobian, or the jacobians of the blocks after the first
JacobianRequests(cf) ==
  LET all == 0..(Len(cf.parameter_block_sizes) - 1)
  IN {NoRequest, [jacobians |-> "array", nonNull |-> all],
      [jacobians |-> "array", nonNull |-> all \ {0}]}

\* the values the solver hands over for the intrinsic block
IntrinsicTrials(cam) ==
  {getParams(cam), [getParams(cam) EXCEPT ![1] = @ + 1, ![2] = @ + 2]}

InitCost ==
  /\ \E kind \in CostKinds :
       /\ SceneInit(<<0, REFINED>>, <<-1, REFINABLE>>, <<NoRig, NoRig>>, FALSE,
                    <<"shared", REFINED>>,
                    IF kind = "CostEquiDistant" THEN EQUIDISTANT ELSE PINHOLE, RefineAll, 0, 0)
       /\ \E flags \in RigFlags, rot_one \in ZRotations, rot_two \in ZRotations,
             rig_one \in RigRotations, rig_two \in RigRotations,
             intrinsic \in IntrinsicTrials(intrinsics[1]) :
            /\ evalCost = MakeCost(kind, flags)
            /\ evalParameters = DeclaredParameters(evalCost, rot_one, rot_two, intrinsic,
                                                   rig_one, rig_two)
  /\ evalRequest \in JacobianRequests(evalCost)
  /\ evalResult = NoEvaluation
  /\ NoPlus

\* the solver calls Evaluate(parameters, residuals, jacobians)
EvaluateCost ==
  /\ evalResult = NoEvaluation
  /\ evalCost # NoEvaluation
  /\ \E garbage \in RigRotations, wild \in BOOLEAN :
       evalResult' = CostEvaluate(evalCost, evalParameters, evalRequest, garbage, wild)
  /\ intrinsics' = IF evalCost.cost = "CostRotationPrior"
                     THEN intrinsics
                     ELSE [intrinsics EXCEPT ![evalCost.intrinsic] =
                             EvaluateSetIntrinsic(@, evalCost, evalParameters[3])]
  /\ UNCHANGED <<poses, rigs, views, constraints2D, rotationPriors, inputVars, baVars, problem,
                 pc, solverSteps, result, sceneBefore, evalCost, evalParameters, evalRequest,
                 plusVars, fileVars>>

NextCost == EvaluateCost

SpecCost == InitCost /\ [][NextCost]_vars

(***************************************************************************)
(* IntrinsicsParameterization on its own: an object is constructed for a   *)
(* block of 4 + distortionSize parameters with one of the 16 combinations  *)
(* of its lock flags, and its Plus is called by the solver with a delta of *)
(* LocalSize() entries.                                                    *)
(***************************************************************************)
MaxDistortionSize == 3

FocalRatios == {1, 2}

InitParam ==
  /\ SceneInit(<<0, REFINED>>, <<-1, REFINABLE>>, <<NoRig, NoRig>>, FALSE,
               <<"shared", REFINED>>, PINHOLE, RefineAll, 0, 0)
  /\ evalCost = NoEvaluation
  /\ evalParameters = <<>>
  /\ evalRequest = [jacobians |-> "nullptr", nonNull |-> {}]
  /\ evalResult = NoEvaluation
  /\ \E distortionSize \in 0..MaxDistortionSize, focalRatio \in FocalRatios,
        lockFocal \in BOOLEAN, lockFocalRatio \in BOOLEAN,
        lockCenter \in BOOLEAN, lockDistortion \in BOOLEAN, step \in {1, 2} :
       /\ parameterization = IntrinsicsParameterization(4 + distortionSize, focalRatio, lockFocal,
                                                        lockFocalRatio, lockCenter, lockDistortion)
       /\ plusX = [i \in 1..(4 + distortionSize) |-> 10 * i]
       /\ plusDelta = [k \in 1..LocalSize(parameterization) |-> step * k]
  /\ plusResult = NoEvaluation
  /\ plusJacobian = NoEvaluation
  /\ file = AbsentFile
  /\ exportReturns = <<>>

\* the solver calls Plus(x, delta, x_plus_delta)
PlusCall ==
  /\ plusResult = NoEvaluation
  /\ parameterization # NoEvaluation
  /\ plusResult' = [cost |-> "Plus",
                    x_plus_delta |-> Plus(parameterization, plusX, plusDelta),
                    deltaReads |-> PlusDeltaReads(parameterization)]
  /\ UNCHANGED <<sceneVars, inputVars, baVars, problem, pc, solverSteps, result, sceneBefore,
                 costVars, parameterization, plusX, plusDelta, plusJacobian, fileVars>>

\* the solver calls ComputeJacobian(x, jacobian)
ComputeJacobianCall ==
  /\ plusJacobian = NoEvaluation
  /\ parameterization # NoEvaluation
  /\ plusJacobian' = [cost |-> "ComputeJacobian", J |-> ComputeJacobian(parameterization)]
  /\ UNCHANGED <<sceneVars, inputVars, baVars, problem, pc, solverSteps, result, sceneBefore,
                 costVars, parameterization, plusX, plusDelta, plusResult, fileVars>>

NextParam == PlusCall \/ ComputeJacobianCall

SpecParam == InitParam /\ [][NextParam]_vars

(***************************************************************************)
(* Vocabulary of the properties.                                           *)
(***************************************************************************)
residualBlocks == problem.residualBlocks

IsReprojection(residual) == residual.costFunction.cost \in {"CostPinHole", "CostEquiDistant"}

\* number of residual blocks the 2D constraints gave; they come first
nbReprojectionBlocks == Cardinality({k \in 1..Len(residualBlocks) : IsReprojection(residualBlocks[k])})

\* createProblem has returned
ProblemCreated == pc \in {"solve", "iterating", "updateFromSolution", "storeStatistics", "done", "crashed"}

\* addExtrinsicsToProblem has returned
ExtrinsicsAdded == pc \notin {"idle", "addExtrinsics"}

\* the view an observation of a 2D constraint was made in
ObservationView(obs) ==
  LET k == (obs + 1) \div 2
  IN  IF obs % 2 = 1 THEN constraints2D[k].ViewFirst ELSE constraints2D[k].ViewSecond

RigEntries(residual) ==
  {i \in 1..Len(residual.parameters) : residual.parameters[i].kind = "rig"}

\* the view takes its rig sub-pose into account
RigAttached(view) ==
  view.rigId # UndefinedIndexT /\ view.subPoseId # UndefinedIndexT /\ ~view.isPoseIndependant

SubPoseUninitialized(view) ==
  view.rigId # UndefinedIndexT /\ rigs[view.rigId][view.subPoseId].status = UNINITIALIZED

(***************************************************************************)
(* C1: every residual block of a 2D constraint is handed to the solver     *)
(* with the parameter list its cost function declares: the pose block of   *)
(* the source view, the pose block of the target view, the intrinsic       *)
(* block, then only rig sub-pose blocks, as many blocks as declared.       *)
(***************************************************************************)
C1_ParametersMatchCostLayout ==
  \A k \in 1..Len(residualBlocks) :
    LET residual == residualBlocks[k]
        cf == residual.costFunction
    IN IsReprojection(residual) =>
         /\ Len(residual.parameters) = Len(cf.parameter_block_sizes)
         /\ residual.parameters[1] = PoseBlock(views[ObservationView(cf.fi)].poseId)
         /\ residual.parameters[2] = PoseBlock(views[ObservationView(cf.fj)].poseId)
         /\ residual.parameters[3] = IntrinsicBlock(cf.intrinsic)
         /\ \A i \in 4..Len(residual.parameters) : residual.parameters[i].kind = "rig"

(***************************************************************************)
(* C2: when adjust returns false because the solution is not usable, the   *)
(* poses, rig sub-poses and intrinsics of the scene are what they were     *)
(* when adjust was called.                                                 *)
(***************************************************************************)
C2_FailureLeavesSceneUnmodified ==
  (pc = "done" /\ result = "false") => SceneSnapshot = sceneBefore

(***************************************************************************)
(* C3: a step of adjust changes a pose, rig sub-pose or intrinsic object   *)
(* of the scene only if it is updateFromSolution.                          *)
(***************************************************************************)
C3_SceneMutatedOnlyByWriteBack ==
  [][SceneSnapshot' # SceneSnapshot => pc = "updateFromSolution"]_vars

(***************************************************************************)
(* C4: adjust takes its steps in the order reset, add extrinsics, add      *)
(* intrinsics, add 2D constraints, add rotation priors, solve, write back; *)
(* every block in the parameter list of a residual block is registered     *)
(* before the residual block is added; write-back follows only a solve     *)
(* that returned.                                                          *)
(***************************************************************************)
StepOrder ==
  { <<"idle", "addExtrinsics">>, <<"addExtrinsics", "addIntrinsics">>,
    <<"addIntrinsics", "addConstraints2D">>, <<"addConstraints2D", "addRotationPriors">>,
    <<"addRotationPriors", "solve">>, <<"solve", "iterating">>,
    <<"iterating", "iterating">>, <<"iterating", "updateFromSolution">>,
    <<"iterating", "done">>, <<"updateFromSolution", "storeStatistics">>,
    <<"storeStatistics", "done">> }

C4_StepsInOrder ==
  [][ /\ (<<pc, pc'>> \in StepOrder \/ pc' \in {"threw", "aborted", "crashed"})
      /\ \A k \in (Len(residualBlocks) + 1)..Len(residualBlocks') :
           \A i \in 1..Len(residualBlocks'[k].parameters) :
             residualBlocks'[k].parameters[i] \in DOMAIN problem.parameterBlocks
      /\ (poses' # poses => pc = "updateFromSolution") ]_vars

(***************************************************************************)
(* C5: once createProblem has returned on a scene whose 2D constraints all *)
(* use a pinhole or equidistant intrinsic, the residual blocks are, in     *)
(* order, a direct and an observation-swapped block with the Huber loss    *)
(* for each 2D constraint, then one block without loss for each rotation   *)
(* prior, and nothing else.                                                *)
(***************************************************************************)
AllConstraintsSupported ==
  \A k \in 1..Len(constraints2D) :
    intrinsics[views[constraints2D[k].ViewFirst].intrinsicId].type \in {PINHOLE, EQUIDISTANT}

C5_ResidualBlocksPerRelation ==
  (ProblemCreated /\ AllConstraintsSupported) =>
    /\ Len(residualBlocks) = 2 * Len(constraints2D) + Len(rotationPriors)
    /\ \A k \in 1..Len(constraints2D) :
         LET direct == residualBlocks[2 * k - 1]
             symmetric == residualBlocks[2 * k]
         IN /\ IsReprojection(direct) /\ IsReprojection(symmetric)
            /\ direct.lossFunction = "HuberLoss" /\ symmetric.lossFunction = "HuberLoss"
            /\ direct.costFunction.fi = constraints2D[k].ObservationFirst
            /\ direct.costFunction.fj = constraints2D[k].ObservationSecond
            /\ symmetric.costFunction.fi = constraints2D[k].ObservationSecond
            /\ symmetric.costFunction.fj = constraints2D[k].ObservationFirst
    /\ \A j \in 1..Len(rotationPriors) :
         LET residual == residualBlocks[2 * Len(constraints2D) + j]
         IN residual.costFunction.cost = "CostRotationPrior" /\ residual.lossFunction = "NULL"

C5_Witness ==
  /\ pc = "solve"
  /\ Len(constraints2D) >= 2 /\ Len(rotationPriors) >= 1
  /\ Len(residualBlocks) = 2 * Len(constraints2D) + Len(rotationPriors)

(***************************************************************************)
(* C6: the residual blocks of a 2D constraint or rotation prior carry      *)
(* withSameRig exactly when both views are rig-attached, not               *)
(* pose-independent, and have the same rig id and sub-pose index; then     *)
(* their parameter lists hold one rig block, and when both views use       *)
(* different sub-poses the lists hold the two sub-pose blocks, also when   *)
(* the two rotations are equal.                                            *)
(***************************************************************************)
SharedSubPose(view_1, view_2) ==
  /\ RigAttached(view_1) /\ RigAttached(view_2)
  /\ view_1.rigId = view_2.rigId /\ view_1.subPoseId = view_2.subPoseId

SameRigHandled(residual, view_1, view_2) ==
  /\ residual.costFunction.withSameRig = SharedSubPose(view_1, view_2)
  /\ SharedSubPose(view_1, view_2) => Cardinality(RigEntries(residual)) = 1
  /\ (RigAttached(view_1) /\ RigAttached(view_2) /\ ~SharedSubPose(view_1, view_2)) =>
       {residual.parameters[i] : i \in RigEntries(residual)}
         = {RigBlock(view_1.rigId, view_1.subPoseId), RigBlock(view_2.rigId, view_2.subPoseId)}

C6_SameRigByIdentity ==
  /\ \A k \in 1..Len(constraints2D) :
       2 * k <= nbReprojectionBlocks =>
         LET view_1 == views[constraints2D[k].ViewFirst]
             view_2 == views[constraints2D[k].ViewSecond]
         IN /\ SameRigHandled(residualBlocks[2 * k - 1], view_1, view_2)
            /\ SameRigHandled(residualBlocks[2 * k], view_1, view_2)
  /\ \A j \in 1..Len(rotationPriors) :
       nbReprojectionBlocks + j <= Len(residualBlocks) =>
         SameRigHandled(residualBlocks[nbReprojectionBlocks + j],
                        views[rotationPriors[j].ViewFirst], views[rotationPriors[j].ViewSecond])

C6_Witness ==
  /\ pc = "solve"
  /\ \E k \in 1..Len(residualBlocks) :
       IsReprojection(residualBlocks[k]) /\ residualBlocks[k].costFunction.withSameRig
  /\ \E k \in 1..Len(residualBlocks) :
       ~IsReprojection(residualBlocks[k]) /\ residualBlocks[k].costFunction.withSameRig

(***************************************************************************)
(* C7: in each of the three cost functions, when the two views share one   *)
(* rig sub-pose (withSameRig), the jacobian written for the single rig     *)
(* block is the sum of the jacobian the first view's rig block and the     *)
(* jacobian the second view's rig block receive when the same cost is      *)
(* evaluated on the same inputs with the rig block passed twice, as two    *)
(* separate blocks.                                                        *)
(***************************************************************************)
\* the same cost function built for two separate rig blocks
WithSeparateRigs(cf) ==
  CASE cf.cost = "CostRotationPrior" -> CostRotationPrior(cf.two_R_one, TRUE, TRUE, FALSE)
    [] cf.cost = "CostEquiDistant" -> CostEquiDistant(cf.fi, cf.fj, cf.intrinsic, TRUE, TRUE, FALSE)
    [] cf.cost = "CostPinHole" -> CostPinHole(cf.fi, cf.fj, cf.intrinsic, TRUE, TRUE, FALSE)

EvaluatedSeparately ==
  LET cf == WithSeparateRigs(evalCost)
  IN CostEvaluate(cf, evalParameters \o <<evalParameters[rigBase(evalCost) + 1]>>,
                  [jacobians |-> "array", nonNull |-> 0..(Len(cf.parameter_block_sizes) - 1)],
                  Identity3, FALSE)

SameRigJacobianWritten ==
  /\ evalResult # NoEvaluation
  /\ evalCost.withSameRig
  /\ rigBase(evalCost) \in DOMAIN evalResult.jacobians

C7_SameRigJacobianIsSum ==
  SameRigJacobianWritten =>
    /\ evalResult.residuals = EvaluatedSeparately.residuals
    /\ evalResult.jacobians[rigBase(evalCost)]
         = EvaluatedSeparately.jacobians[rigBase(evalCost)]
           (+) EvaluatedSeparately.jacobians[rigBase(evalCost) + 1]

C7_Witness ==
  /\ SameRigJacobianWritten
  /\ evalParameters[rigBase(evalCost) + 1] = RotZ90
  /\ evalParameters[1] # evalParameters[2]

(***************************************************************************)
(* C8: as claimed: no rotation block is registered for an UNINITIALIZED    *)
(* rig sub-pose, no residual block references one, and no residual block   *)
(* is added for a 2D constraint or rotation prior one of whose views       *)
(* belongs to a rig with an uninitialized sub-pose.                        *)
(***************************************************************************)
NoUninitializedSubPoseBlock ==
  /\ \A r \in DOMAIN rigBlocks : \A s \in DOMAIN rigBlocks[r] :
       rigs[r][s].status # UNINITIALIZED
  /\ \A b \in DOMAIN problem.parameterBlocks :
       b.kind = "rig" => rigs[b.rig][b.id].status # UNINITIALIZED
  /\ \A k \in 1..Len(residualBlocks) : \A i \in RigEntries(residualBlocks[k]) :
       LET b == residualBlocks[k].parameters[i]
       IN rigs[b.rig][b.id].status # UNINITIALIZED

\* the relations whose residual blocks are in the problem have no view for which Excluded holds
NoResidualBlockFor(Excluded(_)) ==
  /\ \A k \in 1..Len(constraints2D) :
       2 * k <= nbReprojectionBlocks =>
         /\ ~Excluded(views[constraints2D[k].ViewFirst])
         /\ ~Excluded(views[constraints2D[k].ViewSecond])
  /\ \A j \in 1..Len(rotationPriors) :
       nbReprojectionBlocks + j <= Len(residualBlocks) =>
         /\ ~Excluded(views[rotationPriors[j].ViewFirst])
         /\ ~Excluded(views[rotationPriors[j].ViewSecond])

InRigWithUninitializedSubPose(view) == SubPoseUninitialized(view)

UsesUninitializedSubPose(view) == RigAttached(view) /\ SubPoseUninitialized(view)

C8_NoResidualOnUninitializedRigView ==
  NoUninitializedSubPoseBlock /\ NoResidualBlockFor(InRigWithUninitializedSubPose)

(***************************************************************************)
(* C8 amended: no rotation block is registered for an UNINITIALIZED rig    *)
(* sub-pose, no residual block references one, and no residual block is    *)
(* added for a 2D constraint or rotation prior one of whose views is       *)
(* rig-attached, not pose-independent, and has an uninitialized sub-pose:  *)
(* createProblem does not get past such a relation.                        *)
(***************************************************************************)
C8_NoResidualOnUsedUninitializedSubPose ==
  /\ NoUninitializedSubPoseBlock
  /\ NoResidualBlockFor(UsesUninitializedSubPose)
  /\ ProblemCreated =>
       \A j \in 1..Len(rotationPriors) :
         /\ ~UsesUninitializedSubPose(views[rotationPriors[j].ViewFirst])
         /\ ~UsesUninitializedSubPose(views[rotationPriors[j].ViewSecond])

C8_Witness ==
  /\ pc = "threw"
  /\ Len(constraints2D) >= 2
  /\ ~UsesUninitializedSubPose(views[constraints2D[1].ViewFirst])
  /\ UsesUninitializedSubPose(views[constraints2D[1].ViewSecond])
  /\ residualBlocks = <<>>

(***************************************************************************)
(* C9: once addExtrinsicsToProblem has returned, a pose whose state is     *)
(* IGNORED has no parameter block, no residual block has it in its         *)
(* parameter list, the POSE/IGNORED count is the number of such poses and  *)
(* the POSE/REFINED and POSE/CONSTANT counts cover only the other poses    *)
(* and the initialized rig sub-poses.                                      *)
(***************************************************************************)
IgnoredPoses == {p \in DOMAIN poses : poseState[p] = IGNORED}

InitializedSubPoses ==
  {rs \in RigIds \X SubPoseIds : rigs[rs[1]][rs[2]].status # UNINITIALIZED}

C9_IgnoredPoseHasNoBlock ==
  ExtrinsicsAdded =>
    /\ \A p \in IgnoredPoses :
         /\ p \notin DOMAIN posesBlocks
         /\ PoseBlock(p) \notin DOMAIN problem.parameterBlocks
         /\ \A k \in 1..Len(residualBlocks) : \A i \in 1..Len(residualBlocks[k].parameters) :
              residualBlocks[k].parameters[i] # PoseBlock(p)
    /\ statistics.parametersStates[POSE][IGNORED] = Cardinality(IgnoredPoses)
    /\ statistics.parametersStates[POSE][REFINED] + statistics.parametersStates[POSE][Constant]
         = Cardinality((DOMAIN poses) \ IgnoredPoses) + Cardinality(InitializedSubPoses)

C9_Witness ==
  /\ pc = "threw"
  /\ IgnoredPoses # {}
  /\ Len(residualBlocks) >= 2
  /\ statistics.parametersStates[POSE][IGNORED] = 1

(***************************************************************************)
(* C10: once addExtrinsicsToProblem has returned, the block of a pose is   *)
(* constant exactly when the pose is locked, its state is CONSTANT or      *)
(* REFINE_ROTATION is not set, the block of a rig sub-pose exactly when    *)
(* its status is CONSTANT or REFINE_ROTATION is not set, and the           *)
(* POSE/CONSTANT and POSE/REFINED counts are the numbers of constant and   *)
(* of variable rotation blocks.                                            *)
(***************************************************************************)
RotationBlocks == {b \in DOMAIN problem.parameterBlocks : b.kind \in {"pose", "rig"}}

C10_RotationBlockClassifiedOnce ==
  ExtrinsicsAdded =>
    /\ RotationBlocks = {PoseBlock(p) : p \in (DOMAIN poses) \ IgnoredPoses}
                          \cup {RigBlock(rs[1], rs[2]) : rs \in InitializedSubPoses}
    /\ \A p \in (DOMAIN poses) \ IgnoredPoses :
         problem.parameterBlocks[PoseBlock(p)].constant
           <=> (poses[p].locked \/ poseState[p] = Constant \/ REFINE_ROTATION \notin refineOptions)
    /\ \A rs \in InitializedSubPoses :
         problem.parameterBlocks[RigBlock(rs[1], rs[2])].constant
           <=> (rigs[rs[1]][rs[2]].status = Constant \/ REFINE_ROTATION \notin refineOptions)
    /\ statistics.parametersStates[POSE][Constant]
         = Cardinality({b \in RotationBlocks : problem.parameterBlocks[b].constant})
    /\ statistics.parametersStates[POSE][REFINED]
         = Cardinality({b \in RotationBlocks : ~problem.parameterBlocks[b].constant})

C10_Witness ==
  /\ pc = "addIntrinsics"
  /\ REFINE_ROTATION \in refineOptions
  /\ \E p \in DOMAIN poses : poses[p].locked
  /\ statistics.parametersStates[POSE][Constant] = 1
  /\ statistics.parametersStates[POSE][REFINED] >= 1


(***************************************************************************)
(* C11: as claimed: once addIntrinsicsToProblem has returned, every        *)
(* intrinsic of the scene that no reconstructed view uses, or whose state  *)
(* is IGNORED, has no parameter block and is counted once under            *)
(* INTRINSIC/IGNORED, and every other intrinsic has one parameter block    *)
(* and is counted once under REFINED or CONSTANT.  The loop skips an       *)
(* intrinsic that no view references without counting it; the amended      *)
(* statement counts as ignored only the intrinsics some view references.   *)
(***************************************************************************)
IntrinsicsAdded == pc \notin {"idle", "addExtrinsics", "addIntrinsics"}

ReferencedIntrinsics == {views[v].intrinsicId : v \in DOMAIN views}

ReconstructedViewsOf(i) ==
  {v \in DOMAIN views : views[v].intrinsicId = i /\ views[v].poseId \in DOMAIN poses}

UnusedOrIgnoredIntrinsics ==
  {i \in DOMAIN intrinsics : ReconstructedViewsOf(i) = {} \/ intrinsicState[i] = IGNORED}

IntrinsicBlocksAre(withBlock) ==
  /\ DOMAIN intrinsicsBlocks = withBlock
  /\ \A i \in DOMAIN intrinsics :
       IntrinsicBlock(i) \in DOMAIN problem.parameterBlocks <=> i \in withBlock

IntrinsicCountsAre(ignored, withBlock) ==
  /\ statistics.parametersStates[INTRINSIC][IGNORED] = Cardinality(ignored)
  /\ statistics.parametersStates[INTRINSIC][REFINED]
       + statistics.parametersStates[INTRINSIC][Constant] = Cardinality(withBlock)

C11_UnusedIntrinsicCountedIgnored ==
  IntrinsicsAdded =>
    /\ IntrinsicBlocksAre((DOMAIN intrinsics) \ UnusedOrIgnoredIntrinsics)
    /\ IntrinsicCountsAre(UnusedOrIgnoredIntrinsics, (DOMAIN intrinsics) \ UnusedOrIgnoredIntrinsics)

C11_ReferencedIntrinsicCountedOnce ==
  IntrinsicsAdded =>
    /\ IntrinsicBlocksAre((DOMAIN intrinsics) \ UnusedOrIgnoredIntrinsics)
    /\ IntrinsicCountsAre(UnusedOrIgnoredIntrinsics \cap ReferencedIntrinsics,
                          (DOMAIN intrinsics) \ UnusedOrIgnoredIntrinsics)

\* intrinsic 2 is referenced by a view without pose and counted as ignored,
\* intrinsic 1 has its block
C11_Witness ==
  /\ pc = "addConstraints2D"
  /\ \E i \in ReferencedIntrinsics : ReconstructedViewsOf(i) = {}
  /\ statistics.parametersStates[INTRINSIC][IGNORED] = 1
  /\ DOMAIN intrinsicsBlocks = {1}


(***************************************************************************)
(* C12: after adjust has returned true with REFINE_ROTATION or             *)
(* REFINE_TRANSLATION set, every pose whose state is REFINED has as        *)
(* transform the rotation held in its block with translation zero, and     *)
(* every other pose has the transform it had when adjust was called.       *)
(***************************************************************************)
AdjustSucceeded == pc = "done" /\ result = "true"

RefinePoses == REFINE_ROTATION \in refineOptions \/ REFINE_TRANSLATION \in refineOptions

C12_RefinedPosesWrittenBack ==
  (AdjustSucceeded /\ RefinePoses) =>
    \A p \in DOMAIN poses :
      IF poseState[p] = REFINED
        THEN /\ poses[p].rotation = posesBlocks[p]
             /\ poses[p].translation = <<0, 0, 0>>
        ELSE /\ poses[p].rotation = sceneBefore.poses[p].rotation
             /\ poses[p].translation = sceneBefore.poses[p].translation

\* a refined pose took the solver's rotation while a constant pose kept its transform
C12_Witness ==
  /\ AdjustSucceeded
  /\ RefinePoses
  /\ \E p \in DOMAIN poses :
       /\ poseState[p] = REFINED
       /\ poses[p].rotation # sceneBefore.poses[p].rotation
       /\ poses[p].translation = <<0, 0, 0>>
  /\ \E p \in DOMAIN poses :
       /\ poseState[p] = Constant
       /\ poses[p].translation # <<0, 0, 0>>


(***************************************************************************)
(* C13: the write-back step of a successful adjust gives every intrinsic   *)
(* whose state is REFINED and that has a parameter block the scale, offset *)
(* and distortion of its solved block, and leaves unchanged every          *)
(* intrinsic whose state is CONSTANT or IGNORED, and every intrinsic when  *)
(* none of the focal, distortion and optical-offset flags is set.          *)
(***************************************************************************)
RefineIntrinsics ==
  \/ REFINE_INTRINSICS_FOCAL \in refineOptions
  \/ REFINE_INTRINSICS_DISTORTION \in refineOptions
  \/ REFINE_INTRINSICS_OPTICALOFFSET_ALWAYS \in refineOptions
  \/ REFINE_INTRINSICS_OPTICALOFFSET_IF_ENOUGH_DATA \in refineOptions

C13_RefinedIntrinsicsWrittenBack ==
  [][pc = "updateFromSolution" =>
       \A i \in DOMAIN intrinsics :
         /\ (RefineIntrinsics /\ intrinsicState[i] = REFINED /\ i \in DOMAIN intrinsicsBlocks)
              => /\ getParams(intrinsics'[i]) = intrinsicsBlocks[i]
                 /\ intrinsics'[i].type = intrinsics[i].type
         /\ (~RefineIntrinsics \/ intrinsicState[i] \in {Constant, IGNORED})
              => intrinsics'[i] = intrinsics[i]]_vars

\* the write-back has given intrinsic 1 the solved block, which differs from
\* the parameters the intrinsic had when adjust was called
C13_Witness ==
  /\ pc = "storeStatistics"
  /\ RefineIntrinsics
  /\ intrinsicState[1] = REFINED
  /\ 1 \in DOMAIN intrinsicsBlocks
  /\ getParams(intrinsics[1]) = intrinsicsBlocks[1]
  /\ intrinsicsBlocks[1] # getParams(sceneBefore.intrinsics[1])


(***************************************************************************)
(* C14: the residual of CostRotationPrior is the zero vector whenever the  *)
(* relative rotation composed from the parameter blocks,                   *)
(* (rigB.rotB).(rigA.rotA)^T with the identity for an absent rig block,    *)
(* equals the measured prior, in each rig configuration: no rig, rig on    *)
(* the first view only, rig on the second view only, two different         *)
(* sub-poses, one shared sub-pose.                                         *)
(***************************************************************************)
\* the rig block passed for the first view, and for the second view
RigBlockOfFirst(cf, params) ==
  IF cf.withRig_one THEN params[rigBase(cf) + 1] ELSE Identity3

RigBlockOfSecond(cf, params) ==
  IF ~cf.withRig_two THEN Identity3
  ELSE IF cf.withSameRig THEN params[rigBase(cf) + 1]
  ELSE params[rigBase(cf) + 1 + (IF cf.withRig_one THEN 1 ELSE 0)]

ComposedRelativeRotation(cf, params) ==
  MatMul(MatMul(RigBlockOfSecond(cf, params), params[2]),
         Transpose(MatMul(RigBlockOfFirst(cf, params), params[1])))

PriorEvaluated == evalResult # NoEvaluation /\ evalCost.cost = "CostRotationPrior"

C14_PriorResidualZeroAtPrior ==
  (PriorEvaluated /\ ComposedRelativeRotation(evalCost, evalParameters) = evalCost.two_R_one)
    => evalResult.residuals = <<0, 0, 0>>


(***************************************************************************)
(* C15: for each of the 16 combinations of the lock flags and each         *)
(* distortion size, Plus leaves the slice of every locked group (focal     *)
(* [0,1], center [2,3], distortion [4..]) equal to x, reads exactly the    *)
(* first LocalSize() entries of delta, and GlobalSize() is                 *)
(* 4 + distortionSize.                                                     *)
(***************************************************************************)
PlusCalled == plusResult # NoEvaluation

\* 1-based positions of the groups in a block
FocalSlice == {1, 2}
CenterSlice == {3, 4}
DistortionSlice == 5..Len(plusX)

SliceKept(slice) == \A i \in slice : plusResult.x_plus_delta[i] = plusX[i]

C15_PlusKeepsLockedSlices ==
  PlusCalled =>
    /\ parameterization.lockFocal => SliceKept(FocalSlice)
    /\ parameterization.lockCenter => SliceKept(CenterSlice)
    /\ parameterization.lockDistortion => SliceKept(DistortionSlice)
    /\ DOMAIN plusResult.x_plus_delta = 1..GlobalSize(parameterization)
    /\ plusResult.deltaReads = 0..(LocalSize(parameterization) - 1)
    /\ GlobalSize(parameterization) = 4 + (Len(plusX) - 4)

\* center locked while focal and distortion move
C15_Witness ==
  /\ PlusCalled
  /\ parameterization.lockCenter
  /\ ~parameterization.lockFocal
  /\ ~parameterization.lockDistortion
  /\ Len(plusX) = 4 + MaxDistortionSize
  /\ SliceKept(CenterSlice)
  /\ \A i \in FocalSlice \cup DistortionSlice : plusResult.x_plus_delta[i] # plusX[i]

(***************************************************************************)
(* C16: for each of the 16 combinations of (lockFocal, lockFocalRatio,     *)
(* lockCenter, lockDistortion), LocalSize() is the sum of what the         *)
(* unlocked groups contribute: focal 0 if locked, else 1 if the focal      *)
(* ratio is locked, else 2; center 2 if unlocked; distortion               *)
(* distortionSize if unlocked.                                             *)
(***************************************************************************)
FocalContribution ==
  IF parameterization.lockFocal THEN 0
  ELSE IF parameterization.lockFocalRatio THEN 1 ELSE 2

CenterContribution == IF parameterization.lockCenter THEN 0 ELSE 2

DistortionContribution == IF parameterization.lockDistortion THEN 0 ELSE Len(plusX) - 4

C16_LocalSizeIsSumOfUnlocked ==
  parameterization # NoEvaluation =>
    /\ LocalSize(parameterization)
         = FocalContribution + CenterContribution + DistortionContribution
    /\ Len(plusDelta) = LocalSize(parameterization)

\* focal moves with its ratio locked: one entry for the focal, three in all
C16_Witness ==
  /\ PlusCalled
  /\ ~parameterization.lockFocal
  /\ parameterization.lockFocalRatio
  /\ ~parameterization.lockCenter
  /\ parameterization.lockDistortion
  /\ LocalSize(parameterization) = 3
  /\ plusResult.x_plus_delta[2] = plusX[2] + parameterization.focalRatio * plusDelta[1]


(***************************************************************************)
(* C17: when addConstraints2DToProblem meets a 2D constraint whose         *)
(* intrinsic is neither equidistant nor pinhole it returns: the problem    *)
(* holds the two residual blocks of each constraint before it, in order,   *)
(* and no residual block of that constraint or of a later one.             *)
(***************************************************************************)
Constraints2DReturned ==
  pc \notin {"idle", "addExtrinsics", "addIntrinsics", "addConstraints2D", "threw", "aborted"}

IncompatibleConstraints ==
  {k \in 1..Len(constraints2D) :
     intrinsics[views[constraints2D[k].ViewFirst].intrinsicId].type \notin {EQUIDISTANT, PINHOLE}}

FirstIncompatible ==
  CHOOSE k \in IncompatibleConstraints : \A j \in IncompatibleConstraints : k <= j

\* the observations of the reprojection residual blocks, in the order added
ReprojectionObservations ==
  LET blocks == SelectSeq(problem.residualBlocks, IsReprojection)
  IN [j \in 1..Len(blocks) |-> <<blocks[j].costFunction.fi, blocks[j].costFunction.fj>>]

\* forward and symmetric block of each of the first n constraints
ObservationsOfFirst(n) ==
  [j \in 1..(2 * n) |->
     LET c == constraints2D[(j + 1) \div 2]
     IN IF j % 2 = 1 THEN <<c.ObservationFirst, c.ObservationSecond>>
        ELSE <<c.ObservationSecond, c.ObservationFirst>>]

C17_IncompatibleCameraStopsLoop ==
  (Constraints2DReturned /\ IncompatibleConstraints # {})
    => ReprojectionObservations = ObservationsOfFirst(FirstIncompatible - 1)

\* the second constraint is on the other camera model; the first one's two
\* residual blocks are in the problem
C17_Witness ==
  /\ pc = "addRotationPriors"
  /\ IncompatibleConstraints = {2}
  /\ nbReprojectionBlocks = 2
  /\ ReprojectionObservations = ObservationsOfFirst(1)


(***************************************************************************)
(* C18: once createProblem has returned, in the first or in a later adjust *)
(* call on the instance, the pose, rig sub-pose and intrinsic block maps   *)
(* hold exactly the blocks of the scene of this call, and the              *)
(* parameter-state counts of the statistics count this scene only.         *)
(***************************************************************************)
PosesWithBlock == {p \in DOMAIN poses : poseState[p] # IGNORED}

SubPosesWithBlock ==
  {rs \in RigIds \X SubPoseIds : rigs[rs[1]][rs[2]].status # UNINITIALIZED}

SubPoseBlocksHeld ==
  {rs \in RigIds \X SubPoseIds : rs[1] \in DOMAIN rigBlocks /\ rs[2] \in DOMAIN rigBlocks[rs[1]]}

StateCount(parameter) ==
  statistics.parametersStates[parameter][REFINED]
  + statistics.parametersStates[parameter][Constant]
  + statistics.parametersStates[parameter][IGNORED]

C18_BlocksAndCountsOfThisCallOnly ==
  ProblemCreated =>
    /\ DOMAIN posesBlocks = PosesWithBlock
    /\ SubPoseBlocksHeld = SubPosesWithBlock
    /\ DOMAIN intrinsicsBlocks = (DOMAIN intrinsics) \ UnusedOrIgnoredIntrinsics
    /\ StateCount(POSE) = Cardinality(DOMAIN poses) + Cardinality(SubPosesWithBlock)
    /\ statistics.parametersStates[POSE][IGNORED] = Cardinality((DOMAIN poses) \ PosesWithBlock)
    /\ StateCount(INTRINSIC) = Cardinality(ReferencedIntrinsics)

\* second call, with the last pose ignored since the first call: its block is gone
C18_Witness ==
  /\ adjustCalls = 2
  /\ pc = "solve"
  /\ poseState[1] = Constant
  /\ poseState[NViews] = IGNORED
  /\ DOMAIN posesBlocks = PoseIds \ {NViews}
  /\ statistics.parametersStates[POSE][IGNORED] = 1


(***************************************************************************)
(* C19: on a file that was empty or absent before the first export, after  *)
(* n >= 1 exportToFile calls that returned true the file holds one header  *)
(* line, first, followed by n data lines; a call whose file cannot be      *)
(* opened returns false and writes nothing.                                *)
(***************************************************************************)
SuccessfulExports == Len(SelectSeq(exportReturns, LAMBDA r : r))

C19_OneHeaderThenDataLines ==
  /\ SuccessfulExports >= 1 =>
       /\ file.exists
       /\ Len(file.lines) = 1 + SuccessfulExports
       /\ file.lines[1] = HeaderLine
       /\ \A k \in 2..Len(file.lines) : file.lines[k].kind = "data"
  /\ SuccessfulExports = 0 => file.lines = <<>>

\* two exports on a fresh file, after one that could not open it
C19_Witness ==
  /\ exportReturns = <<FALSE, TRUE, TRUE>>
  /\ Len(file.lines) = 3
  /\ file.lines[1] = HeaderLine
  /\ file.lines[2] = DataLine(statistics)
  /\ file.lines[3] = DataLine(statistics)


(***************************************************************************)
(* C20: the parameter list of the symmetric residual block of a 2D         *)
(* constraint holds only registered, non-null blocks, and its rig blocks   *)
(* are the sub-pose blocks of the views in the roles the swapped cost      *)
(* function gives them: first the one of its source view, then the one of  *)
(* its target view; with one rig-attached view the list holds that view's  *)
(* sub-pose block.                                                         *)
(***************************************************************************)
\* the symmetric block carries the second observation as its source
IsSymmetric(residual) == IsReprojection(residual) /\ residual.costFunction.fi % 2 = 0

\* the entries of a parameter list that are neither pose nor intrinsic blocks
RigSlots(residual) ==
  SelectSeq(residual.parameters, LAMBDA b : b.kind \notin {"pose", "intrinsic"})

\* the rig blocks the cost function reads, in the order it declares them
DeclaredRigBlocks(cf) ==
  LET source == views[ObservationView(cf.fi)]
      target == views[ObservationView(cf.fj)]
  IN (IF cf.withRig_one THEN <<RigBlock(source.rigId, source.subPoseId)>> ELSE <<>>)
     \o (IF cf.withRig_two /\ ~cf.withSameRig
           THEN <<RigBlock(target.rigId, target.subPoseId)>> ELSE <<>>)

C20_SymmetricListHoldsTheViewsRigBlocks ==
  \A k \in 1..Len(residualBlocks) :
    LET residual == residualBlocks[k]
    IN IsSymmetric(residual) =>
         /\ \A i \in 1..Len(residual.parameters) :
              /\ residual.parameters[i] # NullBlock
              /\ residual.parameters[i] \in DOMAIN problem.parameterBlocks
         /\ RigSlots(residual) = DeclaredRigBlocks(residual.costFunction)


(***************************************************************************)
(* C21: for every flag combination the assembly can pass, Evaluate of the  *)
(* three cost functions reads the second view's rig rotation from, and     *)
(* writes its jacobian to, the index at which the constructor declared     *)
(* that block, and touches no parameter or jacobian index at or past the   *)
(* number of declared blocks.                                              *)
(***************************************************************************)
\* 0-based index of the block the constructor declared for the rig of the
\* second view: the last one it pushed
DeclaredIndexOfRigTwo(cf) == Len(cf.parameter_block_sizes) - 1

CostEvaluated == evalResult # NoEvaluation /\ evalResult.cost \in CostKinds

C21_EvaluateStaysInDeclaredBlocks ==
  CostEvaluated =>
    /\ \A i \in evalResult.reads \cup evalResult.tested :
         i < Len(evalCost.parameter_block_sizes)
    /\ evalCost.withRig_two =>
         /\ DeclaredIndexOfRigTwo(evalCost) \in evalResult.reads
         /\ evalRequest.jacobians = "array" =>
              DeclaredIndexOfRigTwo(evalCost) \in evalResult.tested


(***************************************************************************)
(* C22: a pose whose block was registered as constant (the pose is locked, *)
(* its state is CONSTANT, or rotation refinement is off) is frozen: after  *)
(* a successful adjust its transform in the scene, translation included,   *)
(* is the one it had before the call.                                      *)
(***************************************************************************)
ConstantPoses ==
  {p \in DOMAIN poses : /\ PoseBlock(p) \in DOMAIN problem.parameterBlocks
                        /\ problem.parameterBlocks[PoseBlock(p)].constant}

C22_ConstantPoseKeepsTransform ==
  AdjustSucceeded =>
    \A p \in ConstantPoses :
      /\ poses[p].rotation = sceneBefore.poses[p].rotation
      /\ poses[p].translation = sceneBefore.poses[p].translation


(***************************************************************************)
(* C23: adjust never modifies a rig sub-pose of the scene: at every point  *)
(* of a call, and after it, successful or not, the rotation and status of  *)
(* every rig sub-pose are those before the call, also when the sub-pose's  *)
(* block was registered as refined and moved by the solver.                *)
(***************************************************************************)
C23_RigSubPosesNeverModified ==
  pc # "idle" => rigs = sceneBefore.rigs

\* the solver moved the block of a refined sub-pose and the result was written back
C23_Witness ==
  /\ AdjustSucceeded
  /\ \E r \in DOMAIN rigBlocks : \E s \in DOMAIN rigBlocks[r] :
       /\ IsVariable(RigBlock(r, s))
       /\ rigBlocks[r][s] # rigs[r][s].rotation
       /\ rigs[r][s].status = REFINABLE


(***************************************************************************)
(* C24: every intrinsic that addIntrinsicsToProblem counts as refined gets *)
(* a parameterization whose LocalSize is at least 1: focal, principal      *)
(* point or distortion is unlocked, whatever the refine options and the    *)
(* usage counts.                                                           *)
(***************************************************************************)
\* the intrinsics registered with a block that is left variable
RefinedIntrinsicBlocks ==
  {i \in DOMAIN intrinsicsBlocks :
     /\ IntrinsicBlock(i) \in DOMAIN problem.parameterBlocks
     /\ ~problem.parameterBlocks[IntrinsicBlock(i)].constant}

C24_RefinedIntrinsicHasFreeParameter ==
  IntrinsicsAdded =>
    \A i \in RefinedIntrinsicBlocks :
      LocalSize(problem.parameterBlocks[IntrinsicBlock(i)].parameterization) >= 1


(***************************************************************************)
(* C25: after a successful adjust the residual-block count of the          *)
(* statistics is the number of residual blocks added to the problem (two   *)
(* per 2D constraint, one per rotation prior).                             *)
(***************************************************************************)
C25_StatisticsCountResidualBlocks ==
  AdjustSucceeded => statistics.nbResidualBlocks = Len(problem.residualBlocks)


(***************************************************************************)
(* C26: every data line exportToFile writes has as many fields as the      *)
(* header line, and each value stands under the column of its meaning:     *)
(* the pose counts under RefinedPose, ConstPose, IgnoredPose, the          *)
(* intrinsic counts under RefinedK, ConstK, IgnoredK, the residual-block   *)
(* count under ResidualBlocks, the distance histogram under d=-1 to d=10+. *)
(***************************************************************************)
ColumnOf(name) ==
  CHOOSE i \in 1..Len(HeaderLine.columns) : HeaderLine.columns[i] = name

DataLines == {k \in 1..Len(file.lines) : file.lines[k].kind = "data"}

C26_DataLineMatchesHeader ==
  \A k \in DataLines :
    LET values == file.lines[k].values
        states == statistics.parametersStates
    IN /\ Len(values) = Len(HeaderLine.columns)
       /\ values[ColumnOf("RefinedPose")] = states[POSE][REFINED]
       /\ values[ColumnOf("ConstPose")] = states[POSE][Constant]
       /\ values[ColumnOf("IgnoredPose")] = states[POSE][IGNORED]
       /\ values[ColumnOf("RefinedK")] = states[INTRINSIC][REFINED]
       /\ values[ColumnOf("ConstK")] = states[INTRINSIC][Constant]
       /\ values[ColumnOf("IgnoredK")] = states[INTRINSIC][IGNORED]
       /\ values[ColumnOf("ResidualBlocks")] = statistics.nbResidualBlocks
       /\ \A c \in ColumnOf("d=-1")..ColumnOf("d=10+") : values[c] = 0


(***************************************************************************)
(* C27: after addConstraints2DToProblem has returned early on a camera     *)
(* model it does not support, the same adjust call still adds one residual *)
(* block per rotation prior and still runs the solver on the incomplete    *)
(* problem; when the solver reports a usable solution the result is        *)
(* written back and adjust returns true.                                   *)
(***************************************************************************)
ReturnedOnIncompatibleCamera == Constraints2DReturned /\ IncompatibleConstraints # {}

nbPriorBlocks ==
  Cardinality({k \in 1..Len(residualBlocks) :
                 residualBlocks[k].costFunction.cost = "CostRotationPrior"})

C27_EarlyReturnDoesNotEndAdjust ==
  /\ [](ReturnedOnIncompatibleCamera =>
          /\ pc \in {"addRotationPriors", "solve", "iterating", "updateFromSolution",
                     "storeStatistics", "done", "crashed"}
          /\ pc # "addRotationPriors" => nbPriorBlocks = Len(rotationPriors)
          /\ pc = "done" => result \in {"true", "false"})
  /\ [][ReturnedOnIncompatibleCamera =>
          /\ pc = "addRotationPriors" /\ pc' \notin {"threw", "aborted"} => pc' = "solve"
          /\ pc = "updateFromSolution" =>
               /\ pc' = "storeStatistics"
               /\ RefinePoses => \A p \in DOMAIN poses :
                    poseState[p] = REFINED => poses'[p].rotation = posesBlocks[p]
          /\ pc = "storeStatistics" => pc' = "done" /\ result' = "true"]_vars

\* the first 2D constraint is on an unsupported camera, the prior's block
\* was added, the solver ran, and adjust returned true
C27_Witness ==
  /\ AdjustSucceeded
  /\ IncompatibleConstraints # {}
  /\ FirstIncompatible = 1
  /\ nbReprojectionBlocks = 0
  /\ nbPriorBlocks = 1
  /\ Len(rotationPriors) = 1
  /\ solverSteps >= 1


(***************************************************************************)
(* C28: a 2D constraint that joins two views of different intrinsic blocks *)
(* fails the precondition assertion of addConstraints2DToProblem and gets  *)
(* no residual block: no residual block is built that uses the first       *)
(* view's intrinsic for both views.                                        *)
(***************************************************************************)
\* the 2D constraint a reprojection residual block was built from
ConstraintOf(residual) == constraints2D[(residual.costFunction.fi + 1) \div 2]

JoinsDifferentIntrinsics(constraint) ==
  views[constraint.ViewFirst].intrinsicId # views[constraint.ViewSecond].intrinsicId

C28_NoBlockAcrossIntrinsics ==
  \A k \in 1..Len(residualBlocks) :
    IsReprojection(residualBlocks[k]) => ~JoinsDifferentIntrinsics(ConstraintOf(residualBlocks[k]))


(***************************************************************************)
(* C29: for every combination of the lock flags Plus is the linear map     *)
(* ComputeJacobian describes, Plus(x, delta) = x + J delta with J the      *)
(* GlobalSize x LocalSize matrix ComputeJacobian writes; with the focal    *)
(* unlocked and the ratio locked the first column of J holds 1 and         *)
(* focalRatio in rows 0 and 1, whose other entries are 0.                  *)
(***************************************************************************)
JacobianComputed == plusJacobian # NoEvaluation

\* entry `row` (0-based) of J delta, summed over the columns from col on
RECURSIVE JTimesDelta(_, _)
JTimesDelta(row, col) ==
  IF col >= LocalSize(parameterization) THEN 0
  ELSE plusJacobian.J[row][col] * plusDelta[col + 1] + JTimesDelta(row, col + 1)

C29_PlusIsTheMapOfComputeJacobian ==
  (PlusCalled /\ JacobianComputed) =>
    /\ DOMAIN plusJacobian.J = 0..(GlobalSize(parameterization) - 1)
    /\ \A row \in DOMAIN plusJacobian.J :
         /\ DOMAIN plusJacobian.J[row] = 0..(LocalSize(parameterization) - 1)
         /\ plusResult.x_plus_delta[row + 1] = plusX[row + 1] + JTimesDelta(row, 0)
    /\ (~parameterization.lockFocal /\ parameterization.lockFocalRatio) =>
         /\ plusJacobian.J[0][0] = 1
         /\ plusJacobian.J[1][0] = parameterization.focalRatio
         /\ \A col \in 1..(LocalSize(parameterization) - 1) :
              plusJacobian.J[0][col] = 0 /\ plusJacobian.J[1][col] = 0

\* focal unlocked with the ratio 2 locked, center and distortion unlocked
C29_Witness ==
  /\ PlusCalled
  /\ JacobianComputed
  /\ ~parameterization.lockFocal
  /\ parameterization.lockFocalRatio
  /\ parameterization.focalRatio = 2
  /\ ~parameterization.lockCenter
  /\ ~parameterization.lockDistortion
  /\ parameterization.distortionSize >= 1
  /\ plusResult.x_plus_delta[2] = plusX[2] + 2 * plusDelta[1]
  /\ plusJacobian.J[1][0] = 2
  /\ plusJacobian.J[2][1] = 1


(***************************************************************************)
(* C30: for a refined intrinsic the principal point is unlocked and        *)
(* bounded by 5% of the width on x and 5% of the height on y, on both      *)
(* sides, exactly when REFINE_INTRINSICS_OPTICALOFFSET_ALWAYS is set, or   *)
(* REFINE_INTRINSICS_OPTICALOFFSET_IF_ENOUGH_DATA is set and more than 3   *)
(* reconstructed views use the intrinsic; otherwise the center is locked   *)
(* and has no bound.                                                       *)
(***************************************************************************)
CenterIsToBeRefined(i) ==
  \/ REFINE_INTRINSICS_OPTICALOFFSET_ALWAYS \in refineOptions
  \/ /\ REFINE_INTRINSICS_OPTICALOFFSET_IF_ENOUGH_DATA \in refineOptions
     /\ Cardinality(ReconstructedViewsOf(i)) > 3

C30_CenterRefinedWhenAskedAndEnoughData ==
  IntrinsicsAdded =>
    \A i \in RefinedIntrinsicBlocks :
      LET entry == problem.parameterBlocks[IntrinsicBlock(i)]
          cam == intrinsics[i]
      IN IF CenterIsToBeRefined(i)
           THEN /\ ~entry.parameterization.lockCenter
                /\ {2, 3} \subseteq (DOMAIN entry.lower) \cap (DOMAIN entry.upper)
                /\ 100 * entry.upper[2] = 5 * cam.w
                /\ 100 * entry.lower[2] = 0 - 5 * cam.w
                /\ 100 * entry.upper[3] = 5 * cam.h
                /\ 100 * entry.lower[3] = 0 - 5 * cam.h
           ELSE /\ entry.parameterization.lockCenter
                /\ {2, 3} \cap ((DOMAIN entry.lower) \cup (DOMAIN entry.upper)) = {}

\* the optional refinement alone, on an intrinsic that four views use
C30_Witness ==
  /\ pc = "addConstraints2D"
  /\ REFINE_INTRINSICS_OPTICALOFFSET_ALWAYS \notin refineOptions
  /\ REFINE_INTRINSICS_OPTICALOFFSET_IF_ENOUGH_DATA \in refineOptions
  /\ 1 \in RefinedIntrinsicBlocks
  /\ Cardinality(ReconstructedViewsOf(1)) > 3
  /\ ~problem.parameterBlocks[IntrinsicBlock(1)].parameterization.lockCenter
  /\ problem.parameterBlocks[IntrinsicBlock(1)].upper[2] = 1

====
